---- MODULE Spec2Model ----
(***************************************************************************)
(* Verification model of the colour core of the reference-sheet viewer:    *)
(*   - utils/colorConversion.ts  (hex / RGB / HSL conversions)             *)
(*   - utils/colorExtraction.ts  (pixel sampling with a bounded cache)     *)
(*   - utils/positioning.ts      (placement of the colour panel)           *)
(*                                                                         *)
(* Numbers: rgbToHslBinary64 and hslToRgbBinary64 compute as the engine    *)
(* does, in binary64.  rgbToHsl and hslToRgb compute the same formulas in  *)
(* exact rational arithmetic on integers (numerator / denominator, with    *)
(* Math.round as RoundDiv), which is far cheaper; the two differ only      *)
(* where a value to be rounded is an exact half that binary64 misses, and  *)
(* the exact ones are used on colours (ChannelSamples, RgbFixtures,        *)
(* ImageData) on which both give the same result.                          *)
(* Strings that the code takes apart (hex colours) are sequences of        *)
(* one-character strings.                                                  *)
(***************************************************************************)
EXTENDS Integers, Sequences, FiniteSets, TLC

VARIABLES
    cache,      \* colorCache.cache: the Map, as the sequence of its entries in insertion order
    imgStatus,  \* per image: "loading", "loaded", "tainted" (loaded, pixels unreadable) or "broken"
    calls,      \* the client's calls: position, arguments, captured canvas, outcome
    nextCall,   \* id of the next call to be issued
    clears,     \* number of clearColorCache() calls so far
    inserted,   \* history: keys passed to colorCache.set since the cache was last empty
    conv,       \* colour-conversion harness: input and outputs of one conversion
    place       \* placement harness: input and output of one calculatePanelPosition call

vars == <<cache, imgStatus, calls, nextCall, clears, inserted, conv, place>>

samplerVars == <<cache, imgStatus, calls, nextCall, clears, inserted>>

(***************************************************************************)
(* Bounds of the model                                                     *)
(***************************************************************************)
MaxCalls == 2

ChannelStride == 50

HexAlphabetSize == 4

(***************************************************************************)
(* Generic helpers                                                         *)
(***************************************************************************)
Max2(a, b) == IF a >= b THEN a ELSE b

Min2(a, b) == IF a <= b THEN a ELSE b

Max3(a, b, c) == Max2(a, Max2(b, c))

Min3(a, b, c) == Min2(a, Min2(b, c))

Abs(a) == IF a < 0 THEN -a ELSE a

\* Math.round(n / d) for n >= 0, d > 0: round half up
RoundDiv(n, d) == (2 * n + d) \div (2 * d)

(***************************************************************************)
(* colorConversion.ts                                                      *)
(***************************************************************************)
LowerDigits == <<"0", "1", "2", "3", "4", "5", "6", "7", "8", "9", "a", "b", "c", "d", "e", "f">>

UpperDigits == <<"0", "1", "2", "3", "4", "5", "6", "7", "8", "9", "A", "B", "C", "D", "E", "F">>

IsHexChar(ch) == \E i \in 1..16 : LowerDigits[i] = ch \/ UpperDigits[i] = ch

\* String.prototype.toUpperCase on one character of the strings that occur here
UpperChar(ch) ==
    IF \E i \in 1..16 : LowerDigits[i] = ch
    THEN UpperDigits[CHOOSE i \in 1..16 : LowerDigits[i] = ch]
    ELSE ch

ToUpperCase(s) == [i \in 1..Len(s) |-> UpperChar(s[i])]

\* value of one hexadecimal digit, either case
DigitValue(ch) == (CHOOSE i \in 1..16 : LowerDigits[i] = ch \/ UpperDigits[i] = ch) - 1

\* parseInt(s, 16) on a string of two hex digits
ParseInt16(s) == 16 * DigitValue(s[1]) + DigitValue(s[2])

\* Number.prototype.toString(16) for 0 <= n <= 255: lowercase, no padding
ToString16(n) ==
    IF n < 16 THEN <<LowerDigits[n + 1]>>
    ELSE <<LowerDigits[(n \div 16) + 1], LowerDigits[(n % 16) + 1]>>

\* a faulty padStart that leaves a single digit alone
PadStartNone(s) == s

\* padStart(2, '0')
PadStart2(s) == IF Len(s) < 2 THEN <<"0">> \o s ELSE s

\* hex.startsWith('#') ? hex.slice(1) : hex
StripHash(hex) == IF Len(hex) > 0 /\ hex[1] = "#" THEN Tail(hex) ELSE hex

isValidHex(hex) ==
    LET cleanHex == StripHash(hex)
    IN  /\ Len(cleanHex) \in {3, 6}
        /\ \A i \in 1..Len(cleanHex) : IsHexChar(cleanHex[i])

isValidRgb(rgb) ==
    /\ rgb.r >= 0 /\ rgb.r <= 255
    /\ rgb.g >= 0 /\ rgb.g <= 255
    /\ rgb.b >= 0 /\ rgb.b <= 255

\* a faulty isValidHsl that lets a hue just above 360 through
isValidHslWide(hsl) ==
    /\ hsl.h >= 0 /\ hsl.h <= 361
    /\ hsl.s >= 0 /\ hsl.s <= 100
    /\ hsl.l >= 0 /\ hsl.l <= 100

isValidHsl(hsl) ==
    /\ hsl.h >= 0 /\ hsl.h <= 360
    /\ hsl.s >= 0 /\ hsl.s <= 100
    /\ hsl.l >= 0 /\ hsl.l <= 100

\* the value thrown is modelled by the result <<"Invalid">>
InvalidColor == <<"Invalid">>

normalizeHex(hex) ==
    IF ~isValidHex(hex) THEN InvalidColor
    ELSE LET cleanHex == StripHash(hex)
             six == IF Len(cleanHex) = 3
                    THEN <<cleanHex[1], cleanHex[1], cleanHex[2], cleanHex[2], cleanHex[3], cleanHex[3]>>
                    ELSE cleanHex
         IN  <<"#">> \o ToUpperCase(six)

NoRgb == [r |-> -1, g |-> -1, b |-> -1]

NoHsl == [h |-> -1, s |-> -1, l |-> -1]

\* NoRgb stands for the thrown error
hexToRgb(hex) ==
    IF ~isValidHex(hex) THEN NoRgb
    ELSE LET cleanHex == Tail(normalizeHex(hex))
         IN  [r |-> ParseInt16(SubSeq(cleanHex, 1, 2)),
              g |-> ParseInt16(SubSeq(cleanHex, 3, 4)),
              b |-> ParseInt16(SubSeq(cleanHex, 5, 6))]

rgbToHex(rgb) ==
    IF ~isValidRgb(rgb) THEN InvalidColor
    ELSE LET rHex == PadStart2(ToString16(rgb.r))
             gHex == PadStart2(ToString16(rgb.g))
             bHex == PadStart2(ToString16(rgb.b))
         IN  ToUpperCase(<<"#">> \o rHex \o gHex \o bHex)

\* a faulty rgbToHsl that leaves out the + 6 of the red sector when g < b
rgbToHslNoWrap(rgb) ==
    IF ~isValidRgb(rgb) THEN NoHsl
    ELSE LET r == rgb.r
             g == rgb.g
             b == rgb.b
             max == Max3(r, g, b)
             min == Min3(r, g, b)
             diff == max - min
             sDen == IF max + min > 255 THEN 510 - max - min ELSE max + min
             hNum == IF max = r THEN 60 * (g - b)
                     ELSE IF max = g THEN 60 * (b - r) + 120 * diff
                     ELSE 60 * (r - g) + 240 * diff
         IN  [h |-> IF diff = 0 THEN 0 ELSE RoundDiv(hNum, diff),
              s |-> IF diff = 0 THEN 0 ELSE RoundDiv(100 * diff, sDen),
              l |-> RoundDiv(100 * (max + min), 510)]

\* NoHsl stands for the thrown error.  With n = 255 * norm for every channel:
\*   l = (max + min) / 510, s = diff / (510 - max - min) or diff / (max + min),
\*   h * 360 = 60 * (difference of the two other channels) / diff + sector offset
rgbToHsl(rgb) ==
    IF ~isValidRgb(rgb) THEN NoHsl
    ELSE LET r == rgb.r
             g == rgb.g
             b == rgb.b
             max == Max3(r, g, b)
             min == Min3(r, g, b)
             diff == max - min
             sDen == IF max + min > 255 THEN 510 - max - min ELSE max + min
             hNum == IF max = r THEN 60 * (g - b) + (IF g < b THEN 360 * diff ELSE 0)
                     ELSE IF max = g THEN 60 * (b - r) + 120 * diff
                     ELSE 60 * (r - g) + 240 * diff
         IN  [h |-> IF diff = 0 THEN 0 ELSE RoundDiv(hNum, diff),
              s |-> IF diff = 0 THEN 0 ELSE RoundDiv(100 * diff, sDen),
              l |-> RoundDiv(100 * (max + min), 510)]

\* a faulty hue2rgb that forgets to wrap a negative t
hue2rgbNoWrap(pN, qN, tN) ==
    IF tN < 60 THEN 60 * pN + (qN - pN) * tN
    ELSE IF tN < 180 THEN 60 * qN
    ELSE IF tN < 240 THEN 60 * pN + (qN - pN) * (240 - tN)
    ELSE 60 * pN

\* hue2rgb(p, q, t) with p = pN / 10000, q = qN / 10000, t = tN / 360;
\* the result is a numerator over 600000
hue2rgb(pN, qN, tN) ==
    LET t1 == IF tN < 0 THEN tN + 360 ELSE tN
        t == IF t1 > 360 THEN t1 - 360 ELSE t1
    IN  IF t < 60 THEN 60 * pN + (qN - pN) * t
        ELSE IF t < 180 THEN 60 * qN
        ELSE IF t < 240 THEN 60 * pN + (qN - pN) * (240 - t)
        ELSE 60 * pN

hslToRgb(hsl) ==
    IF ~isValidHsl(hsl) THEN NoRgb
    ELSE LET h == hsl.h
             s == hsl.s
             l == hsl.l
             qN == IF l < 50 THEN l * (100 + s) ELSE 100 * l + 100 * s - l * s
             pN == 200 * l - qN
         IN  IF s = 0
             THEN [r |-> RoundDiv(255 * l, 100), g |-> RoundDiv(255 * l, 100), b |-> RoundDiv(255 * l, 100)]
             ELSE [r |-> RoundDiv(255 * hue2rgb(pN, qN, h + 120), 600000),
                   g |-> RoundDiv(255 * hue2rgb(pN, qN, h), 600000),
                   b |-> RoundDiv(255 * hue2rgb(pN, qN, h - 120), 600000)]

(***************************************************************************)
(* JavaScript numbers.  r / 255, h * 360 and the like are binary64         *)
(* operations: the exact result rounded to Precision significant bits, a   *)
(* tie going to the even neighbour.  A number is neg, m, e standing for    *)
(* (-1)^neg * m * 2^e, with m a natural of any size (digits to the base    *)
(* 2^LimbBits, least significant first) that is odd or zero.  The exponent *)
(* range of binary64 is left out: the conversions stay between 2^-70 and   *)
(* 2^10.  Negative zero is not told from zero.                             *)
(***************************************************************************)
LimbBits == 15

Precision == 53

PowersOfTwo == <<1, 2, 4, 8, 16, 32, 64, 128, 256, 512, 1024, 2048, 4096, 8192, 16384, 32768>>

Pow2(k) == PowersOfTwo[k + 1]

Base == 32768

RECURSIVE Trim(_)
Trim(a) == IF a = <<>> THEN <<>> ELSE IF a[Len(a)] = 0 THEN Trim(SubSeq(a, 1, Len(a) - 1)) ELSE a

\* a natural below 2^30
BigOf(n) == Trim(<<n % Base, n \div Base>>)

RECURSIVE BigAddCarry(_, _, _)
BigAddCarry(a, b, carry) ==
    IF a = <<>> /\ b = <<>> THEN (IF carry = 0 THEN <<>> ELSE <<carry>>)
    ELSE LET sum == (IF a = <<>> THEN 0 ELSE Head(a)) + (IF b = <<>> THEN 0 ELSE Head(b)) + carry
         IN  <<sum % Base>> \o BigAddCarry(IF a = <<>> THEN <<>> ELSE Tail(a),
                                           IF b = <<>> THEN <<>> ELSE Tail(b), sum \div Base)

BigAdd(a, b) == BigAddCarry(a, b, 0)

\* a - b for a >= b
RECURSIVE BigSubBorrow(_, _, _)
BigSubBorrow(a, b, borrow) ==
    IF a = <<>> THEN <<>>
    ELSE LET diff == Head(a) - (IF b = <<>> THEN 0 ELSE Head(b)) - borrow
         IN  <<(diff + Base) % Base>> \o BigSubBorrow(Tail(a), IF b = <<>> THEN <<>> ELSE Tail(b),
                                                      IF diff < 0 THEN 1 ELSE 0)

BigSub(a, b) == Trim(BigSubBorrow(a, b, 0))

BigLess(a, b) ==
    \/ Len(a) < Len(b)
    \/ /\ Len(a) = Len(b)
       /\ \E i \in 1..Len(a) : a[i] < b[i] /\ \A j \in (i + 1)..Len(a) : a[j] = b[j]

\* a * d for a digit d
RECURSIVE BigMulDigit(_, _, _)
BigMulDigit(a, d, carry) ==
    IF a = <<>> THEN (IF carry = 0 THEN <<>> ELSE <<carry>>)
    ELSE LET prod == Head(a) * d + carry
         IN  <<prod % Base>> \o BigMulDigit(Tail(a), d, prod \div Base)

ShiftLimbs(a, n) == IF a = <<>> THEN <<>> ELSE [i \in 1..n |-> 0] \o a

RECURSIVE BigMul(_, _)
BigMul(a, b) ==
    IF b = <<>> THEN <<>>
    ELSE BigAdd(Trim(BigMulDigit(a, Head(b), 0)), ShiftLimbs(BigMul(a, Tail(b)), 1))

BitLen(a) ==
    IF a = <<>> THEN 0
    ELSE (Len(a) - 1) * LimbBits
            + (CHOOSE k \in 1..LimbBits : Pow2(k - 1) <= a[Len(a)] /\ a[Len(a)] < Pow2(k))

\* bit i of a, bit 0 the least significant
Bit(a, i) == IF i \div LimbBits >= Len(a) THEN 0 ELSE (a[(i \div LimbBits) + 1] \div Pow2(i % LimbBits)) % 2

\* a * 2^k
ShiftLeft(a, k) == ShiftLimbs(Trim(BigMulDigit(a, Pow2(k % LimbBits), 0)), k \div LimbBits)

\* floor(a / 2^k)
ShiftRight(a, k) ==
    LET drop == k \div LimbBits
        r == k % LimbBits
        rest == IF drop >= Len(a) THEN <<>> ELSE SubSeq(a, drop + 1, Len(a))
    IN  Trim([i \in 1..Len(rest) |->
                (rest[i] \div Pow2(r))
                    + (IF i < Len(rest) THEN (rest[i + 1] % Pow2(r)) * Pow2(LimbBits - r) ELSE 0)])

\* the digit q with b * q <= a < b * (q + 1), for a < b * Base: five bits at a time
QuotientDigit(a, b) ==
    LET Fits(q) == ~BigLess(a, Trim(BigMulDigit(b, q, 0)))
        high == CHOOSE x \in 0..31 : Fits(1024 * x) /\ ~Fits(1024 * (x + 1))
        mid == CHOOSE y \in 0..31 : Fits(1024 * high + 32 * y) /\ ~Fits(1024 * high + 32 * (y + 1))
    IN  CHOOSE q \in (1024 * high + 32 * mid)..(1024 * high + 32 * mid + 31) : Fits(q) /\ ~Fits(q + 1)

\* quotient and remainder of floor(a / Base^i) by b: long division, one digit of a at a time
RECURSIVE BigDivMod(_, _, _)
BigDivMod(a, b, i) ==
    IF i >= Len(a) THEN [quot |-> <<>>, rem |-> <<>>]
    ELSE LET above == BigDivMod(a, b, i + 1)
             next == Trim(<<a[i + 1]>> \o above.rem)
             digit == QuotientDigit(next, b)
         IN  [quot |-> Trim(<<digit>> \o above.quot), rem |-> BigSub(next, Trim(BigMulDigit(b, digit, 0)))]

Zero == [neg |-> FALSE, m |-> <<>>, e |-> 0]

TrailingZeros(m) ==
    CHOOSE k \in 0..(BitLen(m) - 1) : Bit(m, k) = 1 /\ \A j \in 0..(k - 1) : Bit(m, j) = 0

Canonical(neg, m, e) ==
    IF m = <<>> THEN Zero
    ELSE LET zeros == TrailingZeros(m)
         IN  [neg |-> neg, m |-> ShiftRight(m, zeros), e |-> e + zeros]

\* the binary64 nearest to (-1)^neg * m * 2^e, a tie going to the even neighbour
RoundToNearest(neg, m, e) ==
    IF BitLen(m) <= Precision THEN Canonical(neg, m, e)
    ELSE LET k == BitLen(m) - Precision
             kept == ShiftRight(m, k)
             up == /\ Bit(m, k - 1) = 1
                   /\ (Bit(kept, 0) = 1 \/ \E i \in 0..(k - 2) : Bit(m, i) = 1)
         IN  Canonical(neg, IF up THEN BigAdd(kept, <<1>>) ELSE kept, e + k)

Number(n) == Canonical(n < 0, BigOf(IF n < 0 THEN -n ELSE n), 0)

Negate(a) == IF a = Zero THEN Zero ELSE [a EXCEPT !.neg = ~a.neg]

\* a + b
Plus(a, b) ==
    LET e == IF a.e <= b.e THEN a.e ELSE b.e
        am == ShiftLeft(a.m, a.e - e)
        bm == ShiftLeft(b.m, b.e - e)
    IN  IF a.neg = b.neg THEN RoundToNearest(a.neg, BigAdd(am, bm), e)
        ELSE IF BigLess(am, bm) THEN RoundToNearest(b.neg, BigSub(bm, am), e)
        ELSE RoundToNearest(a.neg, BigSub(am, bm), e)

\* a - b
Minus(a, b) == Plus(a, Negate(b))

\* a * b
Times(a, b) == RoundToNearest(a.neg # b.neg, BigMul(a.m, b.m), a.e + b.e)

\* a / b for b # 0: 55 or more bits of the quotient, and one more bit that
\* tells whether the division left a remainder
Over(a, b) ==
    IF a = Zero THEN Zero
    ELSE LET k == Precision + 2 + BitLen(b.m) - BitLen(a.m)
             d == BigDivMod(ShiftLeft(a.m, k), b.m, 0)
             m == BigAdd(BigAdd(d.quot, d.quot), IF d.rem = <<>> THEN <<>> ELSE <<1>>)
         IN  RoundToNearest(a.neg # b.neg, m, a.e - b.e - k - 1)

\* a < b
Less(a, b) == Minus(a, b).neg

Largest(a, b, c) == LET ab == IF Less(a, b) THEN b ELSE a IN IF Less(ab, c) THEN c ELSE ab

Smallest(a, b, c) == LET ab == IF Less(b, a) THEN b ELSE a IN IF Less(c, ab) THEN c ELSE ab

\* a natural below 2^30 as an integer
SmallInt(m) == IF m = <<>> THEN 0 ELSE IF Len(m) = 1 THEN m[1] ELSE m[1] + Base * m[2]

\* Math.round: the nearest integer, a tie going up
MathRound(a) ==
    IF a.e >= 0 THEN (IF a.neg THEN -1 ELSE 1) * SmallInt(ShiftLeft(a.m, a.e))
    ELSE LET whole == SmallInt(ShiftRight(a.m, -a.e))
             half == Bit(a.m, -a.e - 1) = 1
             more == \E i \in 0..(-a.e - 2) : Bit(a.m, i) = 1
         IN  IF ~a.neg THEN whole + (IF half THEN 1 ELSE 0)
             ELSE -(whole + (IF half /\ more THEN 1 ELSE 0))

\* the value of a one-element set: Only({e : x \in {d}}) is e with x standing
\* for the value of d, the way a const declaration names a value
Only(S) == CHOOSE x \in S : TRUE

\* rgbToHsl, every operation rounded as the engine rounds it
rgbToHslBinary64(rgb) ==
    IF ~isValidRgb(rgb) THEN NoHsl
    ELSE Only({Only({Only({Only({
            [h |-> MathRound(Times(h, Number(360))),
             s |-> MathRound(Times(s, Number(100))),
             l |-> MathRound(Times(l, Number(100)))]
          : s \in {IF diff = Zero THEN Zero
                   ELSE IF Less(Over(Number(1), Number(2)), l)
                   THEN Over(diff, Minus(Minus(Number(2), max), min))
                   ELSE Over(diff, Plus(max, min))},
            h \in {IF diff = Zero THEN Zero
                   ELSE IF max = rNorm
                   THEN Over(Plus(Over(Minus(gNorm, bNorm), diff),
                                  IF Less(gNorm, bNorm) THEN Number(6) ELSE Number(0)), Number(6))
                   ELSE IF max = gNorm
                   THEN Over(Plus(Over(Minus(bNorm, rNorm), diff), Number(2)), Number(6))
                   ELSE Over(Plus(Over(Minus(rNorm, gNorm), diff), Number(4)), Number(6))}})
          : diff \in {Minus(max, min)}, l \in {Over(Plus(max, min), Number(2))}})
          : max \in {Largest(rNorm, gNorm, bNorm)}, min \in {Smallest(rNorm, gNorm, bNorm)}})
          : rNorm \in {Over(Number(rgb.r), Number(255))},
            gNorm \in {Over(Number(rgb.g), Number(255))},
            bNorm \in {Over(Number(rgb.b), Number(255))}})

hue2rgbBinary64(p, q, t) ==
    Only({Only({
        IF Less(t2, Over(Number(1), Number(6)))
        THEN Plus(p, Times(Times(Minus(q, p), Number(6)), t2))
        ELSE IF Less(t2, Over(Number(1), Number(2))) THEN q
        ELSE IF Less(t2, Over(Number(2), Number(3)))
        THEN Plus(p, Times(Times(Minus(q, p), Minus(Over(Number(2), Number(3)), t2)), Number(6)))
        ELSE p
      : t2 \in {IF Less(Number(1), t1) THEN Minus(t1, Number(1)) ELSE t1}})
      : t1 \in {IF t.neg THEN Plus(t, Number(1)) ELSE t}})

\* hslToRgb, every operation rounded as the engine rounds it
hslToRgbBinary64(hsl) ==
    IF ~isValidHsl(hsl) THEN NoRgb
    ELSE Only({Only({Only({Only({
            [r |-> MathRound(Times(r, Number(255))),
             g |-> MathRound(Times(g, Number(255))),
             b |-> MathRound(Times(b, Number(255)))]
          : r \in {IF sNorm = Zero THEN lNorm ELSE hue2rgbBinary64(p, q, Plus(hNorm, Over(Number(1), Number(3))))},
            g \in {IF sNorm = Zero THEN lNorm ELSE hue2rgbBinary64(p, q, hNorm)},
            b \in {IF sNorm = Zero THEN lNorm ELSE hue2rgbBinary64(p, q, Minus(hNorm, Over(Number(1), Number(3))))}})
          : p \in {Minus(Times(Number(2), lNorm), q)}})
          : q \in {IF Less(lNorm, Over(Number(1), Number(2)))
                   THEN Times(lNorm, Plus(Number(1), sNorm))
                   ELSE Minus(Plus(lNorm, sNorm), Times(lNorm, sNorm))}})
          : hNorm \in {Over(Number(hsl.h), Number(360))},
            sNorm \in {Over(Number(hsl.s), Number(100))},
            lNorm \in {Over(Number(hsl.l), Number(100))}})

(***************************************************************************)
(* colorExtraction.ts, the palette code: its own rgbToHsl(r, g, b) and     *)
(* rgbToHex(r, g, b), which validate nothing                               *)
(***************************************************************************)
\* the private rgbToHsl: r /= 255 and so on, h /= 6 at the end
paletteRgbToHsl(r, g, b) ==
    Only({Only({Only({Only({
        [h |-> MathRound(Times(h, Number(360))),
         s |-> MathRound(Times(s, Number(100))),
         l |-> MathRound(Times(l, Number(100)))]
      : s \in {IF max = min THEN Zero
               ELSE IF Less(Over(Number(1), Number(2)), l)
               THEN Over(d, Minus(Minus(Number(2), max), min))
               ELSE Over(d, Plus(max, min))},
        h \in {IF max = min THEN Zero
               ELSE IF max = rNorm
               THEN Over(Plus(Over(Minus(gNorm, bNorm), d),
                              IF Less(gNorm, bNorm) THEN Number(6) ELSE Number(0)), Number(6))
               ELSE IF max = gNorm
               THEN Over(Plus(Over(Minus(bNorm, rNorm), d), Number(2)), Number(6))
               ELSE Over(Plus(Over(Minus(rNorm, gNorm), d), Number(4)), Number(6))}})
      : l \in {Over(Plus(max, min), Number(2))}, d \in {Minus(max, min)}})
      : max \in {Largest(rNorm, gNorm, bNorm)}, min \in {Smallest(rNorm, gNorm, bNorm)}})
      : rNorm \in {Over(Number(r), Number(255))},
        gNorm \in {Over(Number(g), Number(255))},
        bNorm \in {Over(Number(b), Number(255))}})

\* the private rgbToHex: '#' + [r, g, b].map(x => one or two digits of x.toString(16),
\* a single digit after a '0').join('')
paletteRgbToHex(r, g, b) ==
    LET TwoDigits(x) == IF Len(ToString16(x)) = 1 THEN <<"0">> \o ToString16(x) ELSE ToString16(x)
    IN  <<"#">> \o TwoDigits(r) \o TwoDigits(g) \o TwoDigits(b)

(***************************************************************************)
(* The conversions as JavaScript calls them.  An argument is any value: a  *)
(* number, NaN, a string or undefined; value is the number a comparison    *)
(* such as v >= 0 coerces it to (NaN and undefined compare false).         *)
(***************************************************************************)
Num(n) == [type |-> "number", value |-> n]

\* typeof v === 'number' && !isNaN(v)
IsNumber(v) == v.type = "number"

Channels(args) == [r |-> args[1].value, g |-> args[2].value, b |-> args[3].value]

Components(args) == [h |-> args[1].value, s |-> args[2].value, l |-> args[3].value]

\* isValidRgb, its typeof and isNaN tests included
isValidRgbJs(args) == (\A n \in 1..3 : IsNumber(args[n])) /\ isValidRgb(Channels(args))

\* isValidHsl, its typeof and isNaN tests included
isValidHslJs(args) == (\A n \in 1..3 : IsNumber(args[n])) /\ isValidHsl(Components(args))

\* isValidHex, its typeof test included
isValidHexJs(arg) == arg.type = "string" /\ isValidHex(arg.chars)

(***************************************************************************)
(* The host: image elements and their pixels                               *)
(***************************************************************************)
Images == {"A", "B"}

\* intrinsic size of the picture behind each image element
NaturalSize(i) == IF i = "A" THEN [width |-> 10, height |-> 10] ELSE [width |-> 2, height |-> 1]

\* imageElement.width / .height: the layout (display) size, known before the picture loads
NominalSize(i) == IF i = "A" THEN [width |-> 20, height |-> 20] ELSE [width |-> 3, height |-> 2]

\* imageElement.complete
Complete(status) == status # "loading"

\* imageElement.naturalWidth / naturalHeight: 0 until the picture has loaded, 0 for a broken one
NaturalWidth(i, status) == IF status \in {"loaded", "tainted"} THEN NaturalSize(i).width ELSE 0

NaturalHeight(i, status) == IF status \in {"loaded", "tainted"} THEN NaturalSize(i).height ELSE 0

\* the picture's pixel at (x, y)
ImageData(i, x, y) ==
    IF i = "A" THEN [r |-> (25 * x + 5) % 256, g |-> (28 * y) % 256, b |-> 51]
    ELSE IF x = 0 THEN [r |-> 255, g |-> 87, b |-> 51]
    ELSE [r |-> 0, g |-> 0, b |-> 255]

\* context.getImageData(x, y, 1, 1).data[0..2] after drawImage(imageElement, 0, 0):
\* outside the drawn picture the canvas is transparent black
CanvasPixel(i, x, y, canvasSize) ==
    IF /\ x >= 0 /\ y >= 0
       /\ x < canvasSize.width /\ y < canvasSize.height
       /\ x < NaturalSize(i).width /\ y < NaturalSize(i).height
    THEN ImageData(i, x, y)
    ELSE [r |-> 0, g |-> 0, b |-> 0]

(***************************************************************************)
(* colorExtraction.ts: ColorExtractionCache                                *)
(***************************************************************************)
maxSize == 100

generateKey(imageUrl, x, y) == <<imageUrl, x, y>>

KeySeq(c) == [n \in 1..Len(c) |-> c[n].key]

KeySet(c) == {c[n].key : n \in 1..Len(c)}

CacheHas(c, key) == \E n \in 1..Len(c) : c[n].key = key

\* a faulty Map.get that returns the oldest entry's value
CacheGetFirst(c, key) == c[1].color

\* Map.get: the stored ColorInfo (only used when CacheHas)
CacheGet(c, key) == c[CHOOSE n \in 1..Len(c) : c[n].key = key].color

\* a faulty Map.set in which a new key overwrites the newest entry
MapSetLossy(c, key, colorInfo) ==
    IF Len(c) = 0 THEN <<[key |-> key, color |-> colorInfo]>>
    ELSE [n \in 1..Len(c) |-> IF n = Len(c) THEN [key |-> key, color |-> colorInfo] ELSE c[n]]

\* Map.set: an existing key keeps its place and takes the new value, a new key goes last
MapSet(c, key, colorInfo) ==
    IF CacheHas(c, key)
    THEN [n \in 1..Len(c) |-> IF c[n].key = key THEN [key |-> key, color |-> colorInfo] ELSE c[n]]
    ELSE Append(c, [key |-> key, color |-> colorInfo])

\* a faulty set that never evicts
CacheSetNoEvict(c, key, colorInfo) == MapSet(c, key, colorInfo)

\* a faulty set that evicts the newest entry instead of the oldest
CacheSetEvictNewest(c, key, colorInfo) ==
    CHOOSE after \in {MapSet(afterEvict, key, colorInfo) :
                         afterEvict \in {IF Len(c) >= maxSize /\ Len(c) > 0
                                          THEN SubSeq(c, 1, Len(c) - 1) ELSE c}} : TRUE

\* ColorExtractionCache.set
CacheSet(c, key, colorInfo) ==
    CHOOSE after \in {MapSet(afterEvict, key, colorInfo) :
                         afterEvict \in {IF Len(c) >= maxSize /\ Len(c) > 0 THEN Tail(c) ELSE c}} : TRUE

(***************************************************************************)
(* colorExtraction.ts: helpers of the extraction functions                 *)
(***************************************************************************)
NoError == [msg |-> "none", coord |-> <<>>, value |-> 0, dim |-> 0, cause |-> "none"]

\* validateCoordinates: NoError when it returns, else the error thrown
validateCoordinates(x, y, imageDimensions) ==
    IF x < 0 \/ x >= imageDimensions.width
    THEN [msg |-> "X coordinate is out of bounds", coord |-> <<>>, value |-> x,
          dim |-> imageDimensions.width, cause |-> "none"]
    ELSE IF y < 0 \/ y >= imageDimensions.height
    THEN [msg |-> "Y coordinate is out of bounds", coord |-> <<>>, value |-> y,
          dim |-> imageDimensions.height, cause |-> "none"]
    ELSE NoError

\* a || b on numbers
OrElse(a, b) == IF a # 0 THEN a ELSE b

\* createCanvasFromImage, the dimensions it fixes before it looks at the load state
CanvasDimensions(i, status) ==
    [width |-> OrElse(NaturalWidth(i, status), NominalSize(i).width),
     height |-> OrElse(NaturalHeight(i, status), NominalSize(i).height)]

\* createCanvasFromImage: imageElement.complete && imageElement.naturalWidth > 0
AlreadyLoaded(i, status) == Complete(status) /\ NaturalWidth(i, status) > 0

\* extractPixelData: getImageData throws on a tainted canvas
PixelReadable(status) == status # "tainted"

\* a faulty createColorInfo whose hsl is computed with red and blue exchanged
createColorInfoSwapped(rgb) ==
    [hex |-> rgbToHex(rgb), rgb |-> rgb, hsl |-> rgbToHsl([r |-> rgb.b, g |-> rgb.g, b |-> rgb.r])]

createColorInfo(rgb) == [hex |-> rgbToHex(rgb), rgb |-> rgb, hsl |-> rgbToHsl(rgb)]

(***************************************************************************)
(* The extraction calls                                                    *)
(*   pc: "idle" (not issued), "waiting" (load/error listeners registered), *)
(*       "ready" (the canvas promise is settled, the continuation after    *)
(*       the await is queued), "done" (the call's promise is settled)      *)
(***************************************************************************)
CallIds == 1..MaxCalls

NoCall ==
    [pc |-> "idle", kind |-> "none", image |-> "none", coords |-> <<>>,
     dims |-> [width |-> 0, height |-> 0], canvas |-> "none",
     outcome |-> "none", error |-> NoError, result |-> <<>>,
     hit |-> FALSE, drew |-> FALSE, reads |-> 0, overlap |-> FALSE, prevDone |-> FALSE,
     loadedAtCall |-> FALSE, startEpoch |-> -1, setEpoch |-> -1, sizeAtStart |-> -1, sizeAtDone |-> -1,
     dropped |-> {}]

\* the (image, x, y) requests callers make of extractColorFromImage
AtRequests ==
    {<<"A", <<0, 0>>>>, <<"B", <<1, 0>>>>, <<"B", <<2, 0>>>>, <<"B", <<-1, 1>>>>, <<"B", <<0, 1>>>>}

\* the (image, coordinates) requests callers make of extractMultipleColors
ManyRequests ==
    {<<"A", <<<<0, 0>>, <<1, 0>>>>>>,
     <<"B", <<<<0, 0>>, <<1, 0>>>>>>,
     <<"B", <<<<1, 0>>, <<2, 0>>, <<0, 1>>>>>>}

InFlight(c) == calls[c].pc \in {"waiting", "ready"}

\* a call as it is issued; the history fields record what the caller could observe then:
\* another call in flight, the previous call settled, clearColorCache count, getColorCacheSize()
Issued(c, kind, i, coords) ==
    [NoCall EXCEPT !.kind = kind, !.image = i, !.coords = coords,
                   !.overlap = \E d \in CallIds : InFlight(d),
                   !.prevDone = (c = 1 \/ calls[c - 1].pc = "done"),
                   !.startEpoch = clears,
                   !.sizeAtStart = Len(cache)]

\* the synchronous part of createCanvasFromImage, as seen by one call
CreateCanvas(call, i) ==
    [call EXCEPT
        !.dims = CanvasDimensions(i, imgStatus[i]),
        !.loadedAtCall = AlreadyLoaded(i, imgStatus[i]),
        !.drew = AlreadyLoaded(i, imgStatus[i]),
        !.canvas = IF AlreadyLoaded(i, imgStatus[i]) THEN "resolved" ELSE "pending",
        !.pc = IF AlreadyLoaded(i, imgStatus[i]) THEN "ready" ELSE "waiting"]

\* extractColorFromImage up to its await
StartAt(c, i, xy) ==
    /\ c = nextCall
    /\ c \in CallIds
    /\ nextCall' = nextCall + 1
    /\ LET key == generateKey(i, xy[1], xy[2])
           issued == Issued(c, "at", i, <<xy>>)
       IN  IF CacheHas(cache, key)
           THEN calls' = [calls EXCEPT ![c] =
                    [issued EXCEPT !.pc = "done", !.outcome = "ok", !.hit = TRUE,
                                   !.sizeAtDone = Len(cache),
                                   !.result = <<CacheGet(cache, key)>>]]
           ELSE calls' = [calls EXCEPT ![c] = CreateCanvas(issued, i)]
    /\ UNCHANGED <<cache, imgStatus, clears, inserted, conv, place>>

\* extractMultipleColors up to its await
StartMany(c, i, list) ==
    /\ c = nextCall
    /\ c \in CallIds
    /\ nextCall' = nextCall + 1
    /\ calls' = [calls EXCEPT ![c] = CreateCanvas(Issued(c, "many", i, list), i)]
    /\ UNCHANGED <<cache, imgStatus, clears, inserted, conv, place>>

\* handleImageLoad of every call waiting on image i
OnLoad(call, i) ==
    IF call.pc = "waiting" /\ call.image = i
    THEN [call EXCEPT !.drew = TRUE, !.canvas = "resolved", !.pc = "ready"]
    ELSE call

\* handleImageError of every call waiting on image i
OnError(call, i) ==
    IF call.pc = "waiting" /\ call.image = i
    THEN [call EXCEPT !.canvas = "rejected", !.pc = "ready"]
    ELSE call

\* the host fires the image's load event; the picture may be cross-origin (tainted)
HostLoad(i, status) ==
    /\ imgStatus[i] = "loading"
    /\ status \in {"loaded", "tainted"}
    /\ imgStatus' = [imgStatus EXCEPT ![i] = status]
    /\ calls' = [c \in CallIds |-> OnLoad(calls[c], i)]
    /\ UNCHANGED <<cache, nextCall, clears, inserted, conv, place>>

\* the host fires the image's error event
HostError(i) ==
    /\ imgStatus[i] = "loading"
    /\ imgStatus' = [imgStatus EXCEPT ![i] = "broken"]
    /\ calls' = [c \in CallIds |-> OnError(calls[c], i)]
    /\ UNCHANGED <<cache, nextCall, clears, inserted, conv, place>>

(***************************************************************************)
(* The continuation after the await: validate, read, convert, cache        *)
(***************************************************************************)
\* what one run of the continuation has done so far
RunState(c, ins) == [cache |-> c, inserted |-> ins, result |-> <<>>, reads |-> 0, error |-> NoError]

\* a faulty continuation that caches a black pixel when the pixel cannot be read
SampleCachesFailure(st, i, xy, dims, status) ==
    LET invalid == validateCoordinates(xy[1], xy[2], dims)
        key == generateKey(i, xy[1], xy[2])
    IN  IF invalid.msg # "none" THEN [st EXCEPT !.error = invalid]
        ELSE IF ~PixelReadable(status)
        THEN [st EXCEPT !.reads = @ + 1,
                        !.cache = CacheSet(st.cache, key, createColorInfo([r |-> 0, g |-> 0, b |-> 0])),
                        !.error = [msg |-> "Failed to extract pixel data at coordinates", coord |-> xy,
                                   value |-> 0, dim |-> 0, cause |-> "getImageData"]]
        ELSE CHOOSE sampled \in
                {[st EXCEPT !.reads = @ + 1,
                            !.cache = CacheSet(st.cache, key, colorInfo),
                            !.inserted = Append(@, key),
                            !.result = Append(@, colorInfo)] :
                    colorInfo \in {createColorInfo(rgb) : rgb \in {CanvasPixel(i, xy[1], xy[2], dims)}}} : TRUE

\* validateCoordinates; extractPixelData; createColorInfo; colorCache.set
Sample(st, i, xy, dims, status) ==
    LET invalid == validateCoordinates(xy[1], xy[2], dims)
        key == generateKey(i, xy[1], xy[2])
    IN  IF invalid.msg # "none" THEN [st EXCEPT !.error = invalid]
        ELSE IF ~PixelReadable(status)
        THEN [st EXCEPT !.reads = @ + 1,
                        !.error = [msg |-> "Failed to extract pixel data at coordinates", coord |-> xy,
                                   value |-> 0, dim |-> 0, cause |-> "getImageData"]]
        ELSE CHOOSE sampled \in
                {[st EXCEPT !.reads = @ + 1,
                            !.cache = CacheSet(st.cache, key, colorInfo),
                            !.inserted = Append(@, key),
                            !.result = Append(@, colorInfo)] :
                    colorInfo \in {createColorInfo(rgb) : rgb \in {CanvasPixel(i, xy[1], xy[2], dims)}}} : TRUE

\* one iteration of the for loop of extractMultipleColors (nothing once it has thrown)
ManyIter(st, i, xy, dims, status) ==
    LET key == generateKey(i, xy[1], xy[2])
        sampled == Sample(st, i, xy, dims, status)
    IN  IF st.error.msg # "none" THEN st
        ELSE IF CacheHas(st.cache, key)
        THEN [st EXCEPT !.result = Append(@, CacheGet(st.cache, key))]
        ELSE IF sampled.error.msg # "none"
        THEN [sampled EXCEPT !.error = [msg |-> "Failed to extract color at coordinates", coord |-> xy,
                                        value |-> sampled.error.value, dim |-> sampled.error.dim,
                                        cause |-> sampled.error.msg]]
        ELSE sampled

\* for (const coord of coordinates) { ... }; the state after one iteration feeds the next
RECURSIVE ManyLoop(_, _, _, _, _)
ManyLoop(st, i, coords, dims, status) ==
    IF coords = <<>> THEN st
    ELSE CHOOSE done \in {ManyLoop(after, i, Tail(coords), dims, status) :
                             after \in {ManyIter(st, i, Head(coords), dims, status)}} : TRUE

LoadFailure ==
    [msg |-> "Failed to load image for canvas", coord |-> <<>>, value |-> 0, dim |-> 0, cause |-> "none"]

\* the call's promise settles with what the continuation produced
Settle(call, st) ==
    [call EXCEPT !.pc = "done",
                 !.outcome = IF st.error.msg = "none" THEN "ok" ELSE "error",
                 !.error = st.error,
                 !.result = IF st.error.msg = "none" THEN st.result ELSE <<>>,
                 !.reads = st.reads,
                 !.setEpoch = IF st.inserted # inserted THEN clears ELSE -1,
                 !.sizeAtDone = Len(st.cache)]

Rejected(call) ==
    [call EXCEPT !.pc = "done", !.outcome = "error", !.error = LoadFailure, !.sizeAtDone = Len(cache)]

\* extractColorFromImage after its await
ResumeAt(c) ==
    /\ calls[c].pc = "ready"
    /\ calls[c].kind = "at"
    /\ IF calls[c].canvas = "rejected"
       THEN /\ calls' = [calls EXCEPT ![c] = Rejected(calls[c])]
            /\ UNCHANGED <<cache, inserted>>
       ELSE \E st \in {Sample(RunState(cache, inserted), calls[c].image, calls[c].coords[1],
                               calls[c].dims, imgStatus[calls[c].image])} :
                /\ calls' = [calls EXCEPT ![c] = Settle(calls[c], st)]
                /\ cache' = st.cache
                /\ inserted' = st.inserted
    /\ UNCHANGED <<imgStatus, nextCall, clears, conv, place>>

\* extractMultipleColors after its await
ResumeMany(c) ==
    /\ calls[c].pc = "ready"
    /\ calls[c].kind = "many"
    /\ IF calls[c].canvas = "rejected"
       THEN /\ calls' = [calls EXCEPT ![c] = Rejected(calls[c])]
            /\ UNCHANGED <<cache, inserted>>
       ELSE \E st \in {ManyLoop(RunState(cache, inserted), calls[c].image, calls[c].coords,
                                 calls[c].dims, imgStatus[calls[c].image])} :
                /\ calls' = [calls EXCEPT ![c] = Settle(calls[c], st)]
                /\ cache' = st.cache
                /\ inserted' = st.inserted
    /\ UNCHANGED <<imgStatus, nextCall, clears, conv, place>>

\* a faulty clearColorCache that leaves the entries in place
ClearCacheKeepsEntries(c) ==
    /\ c = nextCall
    /\ c \in CallIds
    /\ nextCall' = nextCall + 1
    /\ calls' = [calls EXCEPT ![c] = [Issued(c, "clear", "none", <<>>) EXCEPT !.pc = "done", !.outcome = "ok",
                                                                          !.sizeAtDone = Len(cache),
                                                                          !.dropped = KeySet(cache)]]
    /\ clears' = clears + 1
    /\ UNCHANGED <<cache, inserted, imgStatus, conv, place>>

\* clearColorCache; the call's record keeps the keys the cache held (dropped)
ClearCache(c) ==
    /\ c = nextCall
    /\ c \in CallIds
    /\ nextCall' = nextCall + 1
    /\ calls' = [calls EXCEPT ![c] = [Issued(c, "clear", "none", <<>>) EXCEPT !.pc = "done", !.outcome = "ok",
                                                                          !.sizeAtDone = 0,
                                                                          !.dropped = KeySet(cache)]]
    /\ cache' = <<>>
    /\ inserted' = <<>>
    /\ clears' = clears + 1
    /\ UNCHANGED <<imgStatus, conv, place>>

\* getColorCacheSize
cacheSize == Len(cache)

(***************************************************************************)
(* Initial states of the sampler: a fresh cache, or the cache as a first   *)
(* extractMultipleColors(A, ...) over the first n pixels of A leaves it:   *)
(* n <= maxSize distinct in-bounds keys, one entry each, in list order     *)
(***************************************************************************)
WarmUps == {0, maxSize}

WarmCoords(n) == [k \in 1..n |-> <<(k - 1) % NaturalSize("A").width, (k - 1) \div NaturalSize("A").width>>]

WarmCache(n) ==
    [k \in 1..n |->
        [key |-> generateKey("A", WarmCoords(n)[k][1], WarmCoords(n)[k][2]),
         color |-> createColorInfo(CanvasPixel("A", WarmCoords(n)[k][1], WarmCoords(n)[k][2],
                                               NaturalSize("A")))]]

(***************************************************************************)
(* positioning.ts.  Lengths are integers in pixels; the returned x and y   *)
(* can be half pixels (centre minus half the panel), so the result is in   *)
(* half-pixel units: x2 = 2 * x, y2 = 2 * y.                               *)
(***************************************************************************)
PANEL_WIDTH == 192

PANEL_HEIGHT == 140

EDGE_PADDING == 16

SEGMENT_PANEL_GAP == 12

\* a faulty choice in which b wins a tie
SortFirstUnstable(a, b) == IF b.space >= a.space THEN b ELSE a

\* [a, b].sort((p, q) => q.space - p.space)[0]: the sort is stable, so a wins a tie
SortFirst(a, b) == IF b.space > a.space THEN b ELSE a

\* a faulty side choice that never looks at preferredSide
bestSideAuto(segmentBounds, containerDimensions, preferredSide) ==
    LET spaceLeft == segmentBounds.x
        spaceRight == containerDimensions.width - (segmentBounds.x + segmentBounds.width)
        spaceTop == segmentBounds.y
        spaceBottom == containerDimensions.height - (segmentBounds.y + segmentBounds.height)
        horizontal == SortFirst([side |-> "right", space |-> spaceRight], [side |-> "left", space |-> spaceLeft])
        vertical == SortFirst([side |-> "bottom", space |-> spaceBottom], [side |-> "top", space |-> spaceTop])
    IN  IF horizontal.space >= PANEL_WIDTH + SEGMENT_PANEL_GAP + EDGE_PADDING THEN horizontal.side
        ELSE IF vertical.space >= PANEL_HEIGHT + SEGMENT_PANEL_GAP + EDGE_PADDING THEN vertical.side
        ELSE SortFirst(horizontal, vertical).side

\* a faulty side choice without the fallback: when no side has room it returns preferredSide
bestSideNoFallback(segmentBounds, containerDimensions, preferredSide) ==
    LET spaceLeft == segmentBounds.x
        spaceRight == containerDimensions.width - (segmentBounds.x + segmentBounds.width)
        spaceTop == segmentBounds.y
        spaceBottom == containerDimensions.height - (segmentBounds.y + segmentBounds.height)
        horizontal == SortFirst([side |-> "right", space |-> spaceRight], [side |-> "left", space |-> spaceLeft])
        vertical == SortFirst([side |-> "bottom", space |-> spaceBottom], [side |-> "top", space |-> spaceTop])
    IN  IF preferredSide = "left" /\ spaceLeft >= PANEL_WIDTH + SEGMENT_PANEL_GAP + EDGE_PADDING THEN "left"
        ELSE IF preferredSide = "right" /\ spaceRight >= PANEL_WIDTH + SEGMENT_PANEL_GAP + EDGE_PADDING THEN "right"
        ELSE IF horizontal.space >= PANEL_WIDTH + SEGMENT_PANEL_GAP + EDGE_PADDING THEN horizontal.side
        ELSE IF vertical.space >= PANEL_HEIGHT + SEGMENT_PANEL_GAP + EDGE_PADDING THEN vertical.side
        ELSE preferredSide

\* a faulty side choice that skips the vertical sides: without room on a
\* horizontal side it goes straight to the side with the most space
bestSideSkipVertical(segmentBounds, containerDimensions, preferredSide) ==
    LET spaceLeft == segmentBounds.x
        spaceRight == containerDimensions.width - (segmentBounds.x + segmentBounds.width)
        spaceTop == segmentBounds.y
        spaceBottom == containerDimensions.height - (segmentBounds.y + segmentBounds.height)
        horizontal == SortFirst([side |-> "right", space |-> spaceRight], [side |-> "left", space |-> spaceLeft])
        vertical == SortFirst([side |-> "bottom", space |-> spaceBottom], [side |-> "top", space |-> spaceTop])
    IN  IF preferredSide = "left" /\ spaceLeft >= PANEL_WIDTH + SEGMENT_PANEL_GAP + EDGE_PADDING THEN "left"
        ELSE IF preferredSide = "right" /\ spaceRight >= PANEL_WIDTH + SEGMENT_PANEL_GAP + EDGE_PADDING THEN "right"
        ELSE IF horizontal.space >= PANEL_WIDTH + SEGMENT_PANEL_GAP + EDGE_PADDING THEN horizontal.side
        ELSE SortFirst(horizontal, vertical).side

bestSideOf(segmentBounds, containerDimensions, preferredSide) ==
    LET spaceLeft == segmentBounds.x
        spaceRight == containerDimensions.width - (segmentBounds.x + segmentBounds.width)
        spaceTop == segmentBounds.y
        spaceBottom == containerDimensions.height - (segmentBounds.y + segmentBounds.height)
        horizontal == SortFirst([side |-> "right", space |-> spaceRight], [side |-> "left", space |-> spaceLeft])
        vertical == SortFirst([side |-> "bottom", space |-> spaceBottom], [side |-> "top", space |-> spaceTop])
    IN  IF preferredSide = "left" /\ spaceLeft >= PANEL_WIDTH + SEGMENT_PANEL_GAP + EDGE_PADDING THEN "left"
        ELSE IF preferredSide = "right" /\ spaceRight >= PANEL_WIDTH + SEGMENT_PANEL_GAP + EDGE_PADDING THEN "right"
        ELSE IF horizontal.space >= PANEL_WIDTH + SEGMENT_PANEL_GAP + EDGE_PADDING THEN horizontal.side
        ELSE IF vertical.space >= PANEL_HEIGHT + SEGMENT_PANEL_GAP + EDGE_PADDING THEN vertical.side
        ELSE SortFirst(horizontal, vertical).side

\* a faulty placement whose right and bottom branches leave out SEGMENT_PANEL_GAP
calculatePanelPositionNoGap(segmentBounds, containerDimensions, preferredSide) ==
    LET bestSide == bestSideOf(segmentBounds, containerDimensions, preferredSide)
        centredX2 == Max2(2 * EDGE_PADDING,
                          Min2(2 * segmentBounds.x + segmentBounds.width - PANEL_WIDTH,
                               2 * (containerDimensions.width - PANEL_WIDTH - EDGE_PADDING)))
        centredY2 == Max2(2 * EDGE_PADDING,
                          Min2(2 * segmentBounds.y + segmentBounds.height - PANEL_HEIGHT,
                               2 * (containerDimensions.height - PANEL_HEIGHT - EDGE_PADDING)))
    IN  IF bestSide = "left"
        THEN [x2 |-> 2 * Max2(EDGE_PADDING, segmentBounds.x - PANEL_WIDTH - SEGMENT_PANEL_GAP),
              y2 |-> centredY2, side |-> bestSide]
        ELSE IF bestSide = "right"
        THEN [x2 |-> 2 * Min2(containerDimensions.width - PANEL_WIDTH - EDGE_PADDING,
                              segmentBounds.x + segmentBounds.width),
              y2 |-> centredY2, side |-> bestSide]
        ELSE IF bestSide = "top"
        THEN [x2 |-> centredX2,
              y2 |-> 2 * Max2(EDGE_PADDING, segmentBounds.y - PANEL_HEIGHT - SEGMENT_PANEL_GAP),
              side |-> bestSide]
        ELSE [x2 |-> centredX2,
              y2 |-> 2 * Min2(containerDimensions.height - PANEL_HEIGHT - EDGE_PADDING,
                              segmentBounds.y + segmentBounds.height),
              side |-> bestSide]

calculatePanelPosition(segmentBounds, containerDimensions, preferredSide) ==
    LET bestSide == bestSideOf(segmentBounds, containerDimensions, preferredSide)
        \* 2 * segmentCenterX, 2 * segmentCenterY
        centerX2 == 2 * segmentBounds.x + segmentBounds.width
        centerY2 == 2 * segmentBounds.y + segmentBounds.height
        centredX2 == Max2(2 * EDGE_PADDING,
                          Min2(centerX2 - PANEL_WIDTH,
                               2 * (containerDimensions.width - PANEL_WIDTH - EDGE_PADDING)))
        centredY2 == Max2(2 * EDGE_PADDING,
                          Min2(centerY2 - PANEL_HEIGHT,
                               2 * (containerDimensions.height - PANEL_HEIGHT - EDGE_PADDING)))
    IN  IF bestSide = "left"
        THEN [x2 |-> 2 * Max2(EDGE_PADDING, segmentBounds.x - PANEL_WIDTH - SEGMENT_PANEL_GAP),
              y2 |-> centredY2, side |-> bestSide]
        ELSE IF bestSide = "right"
        THEN [x2 |-> 2 * Min2(containerDimensions.width - PANEL_WIDTH - EDGE_PADDING,
                              segmentBounds.x + segmentBounds.width + SEGMENT_PANEL_GAP),
              y2 |-> centredY2, side |-> bestSide]
        ELSE IF bestSide = "top"
        THEN [x2 |-> centredX2,
              y2 |-> 2 * Max2(EDGE_PADDING, segmentBounds.y - PANEL_HEIGHT - SEGMENT_PANEL_GAP),
              side |-> bestSide]
        ELSE [x2 |-> centredX2,
              y2 |-> 2 * Min2(containerDimensions.height - PANEL_HEIGHT - EDGE_PADDING,
                              segmentBounds.y + segmentBounds.height + SEGMENT_PANEL_GAP),
              side |-> bestSide]

MOBILE_BREAKPOINT == 640

MOBILE_PANEL_WIDTH == 160

MOBILE_PANEL_HEIGHT == 120

MOBILE_PADDING == 32

getResponsivePanelDimensions(containerWidth) ==
    IF containerWidth < MOBILE_BREAKPOINT
    THEN [width |-> Min2(MOBILE_PANEL_WIDTH, containerWidth - MOBILE_PADDING), height |-> MOBILE_PANEL_HEIGHT]
    ELSE [width |-> PANEL_WIDTH, height |-> PANEL_HEIGHT]

(***************************************************************************)
(* Harness of the pure functions: the input is drawn in the initial state, *)
(* one action applies the function                                         *)
(***************************************************************************)
ConvIdle ==
    [op |-> "none", done |-> FALSE, hexIn |-> <<>>, rgbIn |-> NoRgb,
     rgbOut |-> NoRgb, hexOut |-> <<>>, hslOut |-> NoHsl,
     args |-> <<>>, arg |-> [type |-> "undefined", chars |-> <<>>],
     paletteHex |-> <<>>, paletteHsl |-> NoHsl]

HexSampleChars == <<"F", "a", "0", "7", "c", "5", "3", "B">>

HexAlphabet == {HexSampleChars[n] : n \in 1..HexAlphabetSize}

\* the six-digit strings over the alphabet, bare and with a leading #, and the tests' fixtures
HexInputs ==
    LET bare == [1..6 -> HexAlphabet]
    IN  bare \cup {<<"#">> \o h : h \in bare}
             \cup {<<"#", "F", "F", "5", "7", "3", "3">>, <<"#", "A", "A", "B", "B", "C", "C">>,
                   <<"#", "8", "0", "8", "0", "8", "0">>}

ChannelSamples == {n \in 0..255 : n % ChannelStride = 0} \cup {255}

RgbFixtures ==
    {[r |-> 255, g |-> 87, b |-> 51], [r |-> 128, g |-> 128, b |-> 128],
     [r |-> 0, g |-> 0, b |-> 125], [r |-> 2, g |-> 228, b |-> 230], [r |-> 255, g |-> 0, b |-> 1]}

RgbInputs == [r : ChannelSamples, g : ChannelSamples, b : ChannelSamples] \cup RgbFixtures

\* rgbToHex(hexToRgb(hexIn))
HexRoundTrip ==
    /\ conv.op = "hex"
    /\ ~conv.done
    /\ conv' = [conv EXCEPT !.done = TRUE,
                            !.rgbOut = hexToRgb(conv.hexIn),
                            !.hexOut = rgbToHex(hexToRgb(conv.hexIn))]
    /\ UNCHANGED <<samplerVars, place>>

\* hslToRgb(rgbToHsl(rgbIn))
RgbRoundTrip ==
    /\ conv.op = "rgb"
    /\ ~conv.done
    /\ conv' = [conv EXCEPT !.done = TRUE,
                            !.hslOut = rgbToHsl(conv.rgbIn),
                            !.rgbOut = hslToRgb(rgbToHsl(conv.rgbIn))]
    /\ UNCHANGED <<samplerVars, place>>

\* values that are not numbers, in the place of one channel
NotNumbers == {[type |-> "NaN", value |-> 0], [type |-> "string", value |-> 128],
               [type |-> "undefined", value |-> 0]}

\* three numbers from the given samples, or two valid numbers and a value that is no number
TripleArgs(first, second, third) ==
    {<<Num(a), Num(b), Num(c)>> : a \in first, b \in second, c \in third}
        \cup {[n \in 1..3 |-> IF n = k THEN v ELSE Num(0)] : k \in 1..3, v \in NotNumbers}

\* the tests' colours, and colours with a hue, a lightness or a channel that is
\* an exact half before rounding
RgbArgs ==
    TripleArgs({-1, 0, 128, 255, 256}, {-1, 0, 128, 255, 256}, {-1, 0, 128, 255, 256})
        \cup {<<Num(255), Num(87), Num(51)>>, <<Num(0), Num(17), Num(24)>>, <<Num(0), Num(120), Num(3)>>}

HslArgs ==
    TripleArgs({-1, 0, 120, 360, 361}, {-1, 0, 50, 100, 101}, {-1, 0, 50, 100, 101})
        \cup {<<Num(11), Num(100), Num(60)>>, <<Num(0), Num(50), Num(20)>>, <<Num(0), Num(80), Num(50)>>}

MaxShortHex == 4

ShortHexChars == {"#", "F", "a", "g"}

\* every string of up to MaxShortHex characters, longer strings of the tests, and non-strings
HexArgs ==
    {[type |-> "string", chars |-> h] :
        h \in UNION {[1..n -> ShortHexChars] : n \in 0..MaxShortHex}
               \cup {<<"#", "F", "F", "5", "7", "3", "3">>, <<"f", "f", "5", "7", "3", "3">>,
                     <<"#", "F", "F", "5", "7", "3">>, <<"#", "F", "F", "5", "7", "3", "3", "1">>,
                     <<"#", "G", "G", "5", "7", "3", "3">>, <<"F", "F", "5", "7", "3", "g">>}}
        \cup {[type |-> "number", chars |-> <<>>], [type |-> "undefined", chars |-> <<>>]}

\* rgbToHex(args)
CallRgbToHex ==
    /\ conv.op = "rgbToHex"
    /\ ~conv.done
    /\ conv' = [conv EXCEPT !.done = TRUE, !.hexOut = IF ~isValidRgbJs(conv.args) THEN InvalidColor
                                      ELSE rgbToHex(Channels(conv.args))]
    /\ UNCHANGED <<samplerVars, place>>

\* rgbToHsl(args)
CallRgbToHsl ==
    /\ conv.op = "rgbToHsl"
    /\ ~conv.done
    /\ conv' = [conv EXCEPT !.done = TRUE, !.hslOut = IF ~isValidRgbJs(conv.args) THEN NoHsl
                                      ELSE rgbToHslBinary64(Channels(conv.args))]
    /\ UNCHANGED <<samplerVars, place>>

\* hslToRgb(args)
CallHslToRgb ==
    /\ conv.op = "hslToRgb"
    /\ ~conv.done
    /\ conv' = [conv EXCEPT !.done = TRUE, !.rgbOut = IF ~isValidHslJs(conv.args) THEN NoRgb
                                      ELSE hslToRgbBinary64(Components(conv.args))]
    /\ UNCHANGED <<samplerVars, place>>

\* hexToRgb(arg)
CallHexToRgb ==
    /\ conv.op = "hexToRgb"
    /\ ~conv.done
    /\ conv' = [conv EXCEPT !.done = TRUE, !.rgbOut = IF ~isValidHexJs(conv.arg) THEN NoRgb ELSE hexToRgb(conv.arg.chars)]
    /\ UNCHANGED <<samplerVars, place>>

\* normalizeHex(arg)
CallNormalizeHex ==
    /\ conv.op = "normalizeHex"
    /\ ~conv.done
    /\ conv' = [conv EXCEPT !.done = TRUE, !.hexOut = IF ~isValidHexJs(conv.arg) THEN InvalidColor
                                      ELSE normalizeHex(conv.arg.chars)]
    /\ UNCHANGED <<samplerVars, place>>

\* the pixels the palette code converts: integer channels in 0..255
PaletteArgs == {a \in RgbArgs : isValidRgbJs(a)}

\* the palette code converts a pixel
CallPalette ==
    /\ conv.op = "palette"
    /\ ~conv.done
    /\ conv' = [conv EXCEPT !.done = TRUE,
                            !.paletteHex = paletteRgbToHex(conv.args[1].value, conv.args[2].value,
                                                           conv.args[3].value),
                            !.paletteHsl = paletteRgbToHsl(conv.args[1].value, conv.args[2].value,
                                                           conv.args[3].value)]
    /\ UNCHANGED <<samplerVars, place>>

NoPosition == [x2 |-> 0, y2 |-> 0, side |-> "none"]

NoDimensions == [width |-> 0, height |-> 0]

PlaceIdle ==
    [done |-> FALSE, segment |-> [x |-> 0, y |-> 0, width |-> 0, height |-> 0],
     container |-> [width |-> 0, height |-> 0], preferredSide |-> "auto", isCompact |-> FALSE,
     position |-> NoPosition, panel |-> NoDimensions]

SegmentXs == {0, 2, 100, 300, 596, 798}

SegmentYs == {0, 2, 100, 300, 550, 598}

SegmentWidths == {2, 21, 50, 400}

SegmentHeights == {2, 21, 30, 400}

Containers ==
    {[width |-> 800, height |-> 600], [width |-> 400, height |-> 600],
     [width |-> 300, height |-> 200], [width |-> 224, height |-> 172],
     [width |-> 320, height |-> 568]}

PreferredSides == {"left", "right", "auto"}

\* the segment lies inside the container
Inside(segment, container) ==
    /\ segment.x >= 0 /\ segment.y >= 0
    /\ segment.x + segment.width <= container.width
    /\ segment.y + segment.height <= container.height

PlaceInputs ==
    {p \in [segment : [x : SegmentXs, y : SegmentYs, width : SegmentWidths, height : SegmentHeights],
            container : Containers, preferredSide : PreferredSides] :
        Inside(p.segment, p.container)}

\* arguments outside the normal range: negative sizes, a region larger than the
\* container, a container smaller than the panel
DegenerateInputs ==
    {[segment |-> [x |-> 50, y |-> 50, width |-> -5, height |-> -5],
      container |-> [width |-> 100, height |-> 100], preferredSide |-> side] : side \in PreferredSides}
    \cup {[segment |-> [x |-> -10, y |-> -10, width |-> 500, height |-> 900],
           container |-> [width |-> 400, height |-> 600], preferredSide |-> side] : side \in PreferredSides}
    \cup {[segment |-> [x |-> 10, y |-> 20, width |-> 30, height |-> 40],
           container |-> [width |-> 100, height |-> 50], preferredSide |-> side] : side \in PreferredSides}

\* regions with the same free space on two sides or more
TieInputs ==
    {[segment |-> [x |-> 300, y |-> 200, width |-> 200, height |-> 200],
      container |-> [width |-> 800, height |-> 600], preferredSide |-> side] : side \in PreferredSides}
    \cup {[segment |-> [x |-> 100, y |-> 200, width |-> 200, height |-> 200],
           container |-> [width |-> 400, height |-> 600], preferredSide |-> side] : side \in PreferredSides}
    \cup {[segment |-> [x |-> 100, y |-> 50, width |-> 100, height |-> 100],
           container |-> [width |-> 300, height |-> 200], preferredSide |-> side] : side \in PreferredSides}
    \cup {[segment |-> [x |-> 90, y |-> 100, width |-> 110, height |-> 10],
           container |-> [width |-> 300, height |-> 200], preferredSide |-> side] : side \in PreferredSides}
    \cup {[segment |-> [x |-> 100, y |-> 90, width |-> 110, height |-> 10],
           container |-> [width |-> 300, height |-> 200], preferredSide |-> side] : side \in PreferredSides}

\* container widths around the breakpoint and around the padding; 0 is the
\* width the component starts with
ContainerWidths == {0, 1, 31, 32, 33, 191, 192, 200, 280, 639, 640, 641, 768, 1024}

NarrowInputs ==
    {[segment |-> [x |-> 0, y |-> 0, width |-> 0, height |-> 0],
      container |-> [width |-> w, height |-> 600], preferredSide |-> "auto"] : w \in ContainerWidths}

\* the function declares three parameters; a fourth argument, as the mobile
\* tests pass, is dropped by the call
Place ==
    /\ ~place.done
    /\ place.position.side = "none"
    /\ place.container.width > 0
    /\ place' = [place EXCEPT !.done = TRUE,
                              !.position = calculatePanelPosition(place.segment, place.container,
                                                                  place.preferredSide)]
    /\ UNCHANGED <<samplerVars, conv>>

\* the component's panelDimensions: getResponsivePanelDimensions(containerDimensions.width)
Responsive ==
    /\ place.panel = NoDimensions
    /\ place' = [place EXCEPT !.panel = getResponsivePanelDimensions(place.container.width)]
    /\ UNCHANGED <<samplerVars, conv>>

(***************************************************************************)
(* Specifications                                                          *)
(***************************************************************************)
SamplerInit ==
    /\ cache \in {WarmCache(n) : n \in WarmUps}
    /\ inserted = KeySeq(cache)
    /\ imgStatus = [i \in Images |-> IF i = "A" THEN "loaded" ELSE "loading"]
    /\ calls = [c \in CallIds |-> NoCall]
    /\ nextCall = 1
    /\ clears = 0

SamplerFresh ==
    /\ cache = <<>>
    /\ inserted = <<>>
    /\ imgStatus = [i \in Images |-> IF i = "A" THEN "loaded" ELSE "loading"]
    /\ calls = [c \in CallIds |-> NoCall]
    /\ nextCall = 1
    /\ clears = 0

Init ==
    /\ SamplerInit
    /\ conv = ConvIdle
    /\ place = PlaceIdle

Next ==
    \/ \E c \in CallIds, req \in AtRequests : StartAt(c, req[1], req[2])
    \/ \E c \in CallIds, req \in ManyRequests : StartMany(c, req[1], req[2])
    \/ \E i \in Images, status \in {"loaded", "tainted"} : HostLoad(i, status)
    \/ \E i \in Images : HostError(i)
    \/ \E c \in CallIds : ResumeAt(c)
    \/ \E c \in CallIds : ResumeMany(c)
    \/ \E c \in CallIds : ClearCache(c)

Spec == Init /\ [][Next]_vars

\* the event loop runs what is pending: the host delivers the load or error event of an
\* image that is loading, and a queued continuation runs
Deliver ==
    \/ \E i \in Images, status \in {"loaded", "tainted"} : HostLoad(i, status)
    \/ \E i \in Images : HostError(i)
    \/ \E c \in CallIds : ResumeAt(c)
    \/ \E c \in CallIds : ResumeMany(c)

Fairness == WF_vars(Deliver)

LiveSpec == Init /\ [][Next]_vars /\ Fairness

ColorInit ==
    /\ SamplerFresh
    /\ place = PlaceIdle
    /\ conv \in {[ConvIdle EXCEPT !.op = "hex", !.hexIn = h] : h \in HexInputs}
            \cup {[ConvIdle EXCEPT !.op = "rgb", !.rgbIn = rgb] : rgb \in RgbInputs}
            \cup {[ConvIdle EXCEPT !.op = op, !.args = a] : op \in {"rgbToHex", "rgbToHsl"}, a \in RgbArgs}
            \cup {[ConvIdle EXCEPT !.op = "hslToRgb", !.args = a] : a \in HslArgs}
            \cup {[ConvIdle EXCEPT !.op = "palette", !.args = a] : a \in PaletteArgs}
            \cup {[ConvIdle EXCEPT !.op = op, !.arg = a] : op \in {"hexToRgb", "normalizeHex"}, a \in HexArgs}

ColorNext ==
    \/ HexRoundTrip
    \/ RgbRoundTrip
    \/ CallRgbToHex
    \/ CallRgbToHsl
    \/ CallHslToRgb
    \/ CallHexToRgb
    \/ CallNormalizeHex
    \/ CallPalette

ColorSpec == ColorInit /\ [][ColorNext]_vars

PlaceInit ==
    /\ SamplerFresh
    /\ conv = ConvIdle
    /\ place \in {[PlaceIdle EXCEPT !.segment = p.segment, !.container = p.container,
                                    !.preferredSide = p.preferredSide, !.isCompact = compact] :
                     p \in PlaceInputs \cup DegenerateInputs \cup TieInputs \cup NarrowInputs,
                     compact \in BOOLEAN}

PlaceNext == Place \/ Responsive

PlaceSpec == PlaceInit /\ [][PlaceNext]_vars

(***************************************************************************)
(* Properties of the sampler                                               *)
(***************************************************************************)
\* the cache key of an extractColorFromImage call
KeyOf(call) == generateKey(call.image, call.coords[1][1], call.coords[1][2])

Distinct(seq) == Cardinality({seq[n] : n \in 1..Len(seq)}) = Len(seq)

\* an extractColorFromImage call that missed the cache and returned a colour
SampledAt(c) ==
    /\ calls[c].kind = "at"
    /\ calls[c].pc = "done"
    /\ calls[c].outcome = "ok"
    /\ ~calls[c].hit

\* C1: after any sequence of extractColorFromImage, extractMultipleColors and
\* clearColorCache calls, succeeding or failing, getColorCacheSize() is between 0 and 100.
C1_CacheSizeBounded == cacheSize >= 0 /\ cacheSize <= maxSize

\* a call has inserted into a cache that was full: the cache is still at 100 entries
C1_Witness ==
    /\ cacheSize = maxSize
    /\ Len(inserted) > maxSize
    /\ \E c \in CallIds : calls[c].pc = "done" /\ calls[c].setEpoch = clears

\* the continuation of extractColorFromImage inserts a key that is not in a full cache
InsertsNewAtFull(c) ==
    /\ calls[c].pc = "ready"
    /\ calls[c].kind = "at"
    /\ calls'[c].pc = "done"
    /\ calls'[c].outcome = "ok"
    /\ Len(cache) = maxSize
    /\ ~CacheHas(cache, KeyOf(calls[c]))

\* C2: a new key inserted into a cache of 100 entries removes the entry inserted earliest
\* (first in, first out, whatever was hit since), the others stay in order and the new
\* entry goes last; and once 101 distinct keys have gone into an empty cache the first
\* of them is absent and the other 100 are present.
C2_FifoEviction ==
    /\ [][\A c \in CallIds :
            InsertsNewAtFull(c) =>
                /\ Len(cache') = maxSize
                /\ SubSeq(cache', 1, maxSize - 1) = Tail(cache)
                /\ cache'[maxSize].key = KeyOf(calls[c])]_vars
    /\ [](Len(inserted) = maxSize + 1 /\ Distinct(inserted) =>
            /\ ~CacheHas(cache, inserted[1])
            /\ \A n \in 2..(maxSize + 1) : CacheHas(cache, inserted[n]))

\* the 101st distinct key has evicted the first one, which a call had hit after all
\* the other entries were inserted
C2_Witness ==
    /\ Len(inserted) = maxSize + 1
    /\ Distinct(inserted)
    /\ ~CacheHas(cache, inserted[1])
    /\ \E c \in CallIds : calls[c].kind = "at" /\ calls[c].hit /\ KeyOf(calls[c]) = inserted[1]

\* extractColorFromImage is issued for a key that is in the cache
HitStep(c) ==
    /\ calls[c].pc = "idle"
    /\ calls'[c].kind = "at"
    /\ CacheHas(cache, KeyOf(calls'[c]))

\* the hit returns the stored colour at once and touches nothing
HitIsPure(c) ==
    /\ calls'[c].pc = "done"
    /\ calls'[c].outcome = "ok"
    /\ \E n \in 1..Len(cache) : cache[n].key = KeyOf(calls'[c]) /\ calls'[c].result = <<cache[n].color>>
    /\ cache' = cache
    /\ inserted' = inserted
    /\ ~calls'[c].drew
    /\ calls'[c].reads = 0

\* calls c and c + 1 are two consecutive extractColorFromImage calls for the same
\* (image, x, y): no other call is in flight, c misses and returns, then c + 1 is made,
\* with no clearColorCache in between
ConsecutivePair(c) ==
    /\ c + 1 \in CallIds
    /\ SampledAt(c)
    /\ ~calls[c].overlap
    /\ calls[c].setEpoch = calls[c].startEpoch
    /\ calls[c + 1].kind = "at"
    /\ calls[c + 1].image = calls[c].image
    /\ calls[c + 1].coords = calls[c].coords
    /\ calls[c + 1].prevDone
    /\ calls[c + 1].startEpoch = calls[c].setEpoch

\* the second call of the pair is a hit with the colour of the first; one draw, one read
SecondIsHit(c) ==
    /\ calls[c + 1].pc = "done"
    /\ calls[c + 1].hit
    /\ calls[c + 1].result = calls[c].result
    /\ calls[c].drew /\ calls[c].reads = 1
    /\ ~calls[c + 1].drew /\ calls[c + 1].reads = 0

\* C3 as stated: a cached key is returned without any effect, and two consecutive
\* identical calls return equal colours, decode and sample once, and raise
\* getColorCacheSize() by exactly 1.
C3_Original ==
    /\ [][\A c \in CallIds : HitStep(c) => HitIsPure(c)]_vars
    /\ [](\A c \in CallIds : ConsecutivePair(c) =>
            /\ SecondIsHit(c)
            /\ calls[c + 1].sizeAtDone = calls[c].sizeAtStart + 1)

\* C3 (amended): a cached key is returned without any effect; two consecutive identical
\* calls return equal colours and decode and sample once; getColorCacheSize() rises by
\* exactly 1 when the cache held fewer than 100 entries, and stays at 100 when it was full.
C3_CacheHit ==
    /\ [][\A c \in CallIds : HitStep(c) => HitIsPure(c)]_vars
    /\ [](\A c \in CallIds : ConsecutivePair(c) =>
            /\ SecondIsHit(c)
            /\ calls[c + 1].sizeAtDone =
                  IF calls[c].sizeAtStart < maxSize THEN calls[c].sizeAtStart + 1 ELSE maxSize)

\* two consecutive identical calls on a cache below capacity, the second a hit
C3_Witness ==
    \E c \in CallIds :
        /\ ConsecutivePair(c)
        /\ calls[c + 1].hit
        /\ calls[c].sizeAtStart < maxSize
        /\ Len(calls[c + 1].result) = 1

\* an extractColorFromImage call that missed the cache on an image that decoded and
\* whose pixels can be read
DecodedMiss(c) ==
    /\ calls[c].kind = "at"
    /\ calls[c].pc = "done"
    /\ ~calls[c].hit
    /\ calls[c].canvas = "resolved"
    /\ PixelReadable(imgStatus[calls[c].image])

InBounds(xy, size) == 0 <= xy[1] /\ xy[1] < size.width /\ 0 <= xy[2] /\ xy[2] < size.height

\* C4: for an uncached key on a decodable image of width W and height H (its intrinsic
\* size), the call succeeds iff 0 <= x < W and 0 <= y < H; otherwise the error names the
\* offending coordinate and the matching dimension, x when both are out of range.
C4_BoundsValidation ==
    \A c \in CallIds : DecodedMiss(c) =>
        LET xy == calls[c].coords[1]
            size == NaturalSize(calls[c].image)
        IN  /\ (calls[c].outcome = "ok") <=> InBounds(xy, size)
            /\ (xy[1] < 0 \/ xy[1] >= size.width) =>
                  /\ calls[c].error.msg = "X coordinate is out of bounds"
                  /\ calls[c].error.value = xy[1]
                  /\ calls[c].error.dim = size.width
            /\ (0 <= xy[1] /\ xy[1] < size.width /\ (xy[2] < 0 \/ xy[2] >= size.height)) =>
                  /\ calls[c].error.msg = "Y coordinate is out of bounds"
                  /\ calls[c].error.value = xy[2]
                  /\ calls[c].error.dim = size.height

\* an extractMultipleColors call that has settled on an image that decoded and whose
\* pixels can be read
DecodedBatch(c) ==
    /\ calls[c].kind = "many"
    /\ calls[c].pc = "done"
    /\ calls[c].canvas = "resolved"
    /\ PixelReadable(imgStatus[calls[c].image])

\* positions of the coordinates of call c that lie outside the image
Offending(c) ==
    {n \in 1..Len(calls[c].coords) : ~InBounds(calls[c].coords[n], NaturalSize(calls[c].image))}

FirstOffending(c) == CHOOSE n \in Offending(c) : \A m \in Offending(c) : n <= m

\* C5: if any coordinate passed to extractMultipleColors is out of bounds, the whole call
\* fails with an error that identifies the first such coordinate in list order, and no
\* colours are returned.
C5_BatchFailsOnFirstInvalid ==
    \A c \in CallIds : (DecodedBatch(c) /\ Offending(c) # {}) =>
        /\ calls[c].outcome = "error"
        /\ calls[c].error.coord = calls[c].coords[FirstOffending(c)]
        /\ calls[c].result = <<>>

\* C6: every extractColorFromImage / extractMultipleColors call eventually settles,
\* whatever the state of the image when it is made.
C6_EveryCallResolves == \A c \in CallIds : InFlight(c) ~> (calls[c].pc = "done")

\* C7: extractColorFromImage calls that interleave at the await lose no insert: while no
\* more than 100 keys have gone into the cache, the key of every call that returned a
\* sampled colour is in the cache, and getColorCacheSize() is the number of distinct keys
\* inserted.
C7_NoLostInserts ==
    Len(inserted) <= maxSize =>
        /\ \A c \in CallIds : (SampledAt(c) /\ calls[c].setEpoch = clears) => CacheHas(cache, KeyOf(calls[c]))
        /\ cacheSize = Cardinality({inserted[n] : n \in 1..Len(inserted)})

\* two calls for distinct keys were in flight together and both have inserted
C7_Witness ==
    \E c, d \in CallIds :
        /\ c < d
        /\ SampledAt(c) /\ SampledAt(d)
        /\ KeyOf(calls[c]) # KeyOf(calls[d])
        /\ calls[d].overlap
        /\ calls[d].sizeAtStart = calls[c].sizeAtStart
        /\ calls[c].startEpoch = clears /\ calls[d].startEpoch = clears
        /\ CacheHas(cache, KeyOf(calls[c])) /\ CacheHas(cache, KeyOf(calls[d]))
        /\ cacheSize = calls[c].sizeAtStart + 2

(***************************************************************************)
(* Properties of the conversions                                           *)
(***************************************************************************)
\* # followed by six digits, none of them lower case
IsCanonicalHex(hex) ==
    /\ Len(hex) = 7
    /\ hex[1] = "#"
    /\ \A n \in 2..7 : \E d \in 1..16 : UpperDigits[d] = hex[n]

SixDigits(hex) == isValidHex(hex) /\ Len(StripHash(hex)) = 6

\* C8 as stated: rgbToHex(hexToRgb(h)) = h for every six-digit string that isValidHex accepts.
C8_Original == (conv.op = "hex" /\ conv.done /\ SixDigits(conv.hexIn)) => conv.hexOut = conv.hexIn

\* C8 (amended): for every valid six-digit h, rgbToHex(hexToRgb(h)) is h in upper case with
\* a leading #; it is h itself exactly when h already has that form.
C8_HexRoundTrip ==
    (conv.op = "hex" /\ conv.done /\ SixDigits(conv.hexIn)) =>
        /\ Len(conv.hexOut) = 7
        /\ conv.hexOut[1] = "#"
        /\ \A n \in 1..6 : conv.hexOut[n + 1] = UpperChar(StripHash(conv.hexIn)[n])
        /\ (conv.hexOut = conv.hexIn) <=> IsCanonicalHex(conv.hexIn)

\* a canonical string with a channel below 16 (a padded digit) has come back unchanged
C8_Witness ==
    /\ conv.op = "hex" /\ conv.done
    /\ IsCanonicalHex(conv.hexIn)
    /\ conv.rgbOut.r < 16 /\ conv.rgbOut.g > 16
    /\ conv.hexOut = conv.hexIn

ChannelError(a, b) == Max3(Abs(a.r - b.r), Abs(a.g - b.g), Abs(a.b - b.b))

C10_Containment ==
    (/\ place.done
     /\ Inside(place.segment, place.container)
     /\ place.container.width >= PANEL_WIDTH + 2 * EDGE_PADDING
     /\ place.container.height >= PANEL_HEIGHT + 2 * EDGE_PADDING) =>
        /\ 2 * EDGE_PADDING <= place.position.x2
        /\ place.position.x2 + 2 * PANEL_WIDTH <= 2 * (place.container.width - EDGE_PADDING)
        /\ 2 * EDGE_PADDING <= place.position.y2
        /\ place.position.y2 + 2 * PANEL_HEIGHT <= 2 * (place.container.height - EDGE_PADDING)

\* free space between the region and the container edge on one side
FreeSpace(segment, container, side) ==
    IF side = "left" THEN segment.x
    ELSE IF side = "right" THEN container.width - (segment.x + segment.width)
    ELSE IF side = "top" THEN segment.y
    ELSE container.height - (segment.y + segment.height)

\* the free space a side needs to take the panel: panel extent + gap + edge padding
RoomNeeded(side) ==
    IF side \in {"left", "right"} THEN PANEL_WIDTH + SEGMENT_PANEL_GAP + EDGE_PADDING
    ELSE PANEL_HEIGHT + SEGMENT_PANEL_GAP + EDGE_PADDING

\* C11: with preferred side left or right and at least 192 + 12 + 16 = 220 pixels free
\* on that side, the side returned is the preferred side, whatever the other sides offer.
C11_PreferredSideHonoured ==
    (/\ place.done
     /\ place.preferredSide \in {"left", "right"}
     /\ FreeSpace(place.segment, place.container, place.preferredSide) >= RoomNeeded(place.preferredSide)) =>
        place.position.side = place.preferredSide

\* the preferred side was taken although the opposite side has more room
C11_Witness ==
    /\ place.done
    /\ place.preferredSide = "left"
    /\ place.position.side = "left"
    /\ FreeSpace(place.segment, place.container, "left") >= RoomNeeded("left")
    /\ FreeSpace(place.segment, place.container, "right") > FreeSpace(place.segment, place.container, "left")

\* twice the gap between the panel and the region along the x axis (negative: they overlap in x)
GapX2(segment, position) ==
    Max2(2 * segment.x - (position.x2 + 2 * PANEL_WIDTH), position.x2 - 2 * (segment.x + segment.width))

\* twice the gap between the panel and the region along the y axis
GapY2(segment, position) ==
    Max2(2 * segment.y - (position.y2 + 2 * PANEL_HEIGHT), position.y2 - 2 * (segment.y + segment.height))

\* twice the clearance between the two rectangles: they are apart on one axis at least
Clearance2(segment, position) == Max2(GapX2(segment, position), GapY2(segment, position))

PanelSides == {"left", "right", "top", "bottom"}

\* C13: calculatePanelPosition returns for every region, container and preferred side,
\* also for negative sizes, a region larger than the container and a container smaller
\* than the panel: the side is one of left, right, top, bottom and x and y are numbers.
C13_AlwaysPlaces ==
    place.done =>
        /\ place.position.side \in PanelSides
        /\ place.position.x2 \in Int
        /\ place.position.y2 \in Int

\* a placement for a region of negative size in a container smaller than the panel
C13_Witness ==
    /\ place.done
    /\ place.segment.width < 0
    /\ place.container.width < PANEL_WIDTH
    /\ place.position.side \in PanelSides

\* some side of the pair has the room its panel extent, gap and padding need
HorizontalFits(segment, container) ==
    \E side \in {"left", "right"} : FreeSpace(segment, container, side) >= RoomNeeded(side)

VerticalFits(segment, container) ==
    \E side \in {"top", "bottom"} : FreeSpace(segment, container, side) >= RoomNeeded(side)

C15_CompactPrefersVertical ==
    (/\ place.done
     /\ place.isCompact
     /\ place.preferredSide = "auto"
     /\ HorizontalFits(place.segment, place.container)
     /\ VerticalFits(place.segment, place.container))
        => place.position.side \in {"top", "bottom"}

\* clearColorCache is called
ClearStep(c) == calls[c].pc = "idle" /\ calls'[c].kind = "clear"

\* call c is an extractColorFromImage for a key an earlier clearColorCache removed
AfterClear(call, c) ==
    /\ call.kind = "at"
    /\ \E d \in 1..(c - 1) : calls[d].kind = "clear" /\ KeyOf(call) \in calls[d].dropped

\* C16: clearColorCache leaves getColorCacheSize() at 0; an extractColorFromImage
\* for a key the clear removed, made before anything is cached again, is not a hit,
\* and when it returns a colour it has read the pixel once and the key is cached again.
C16_ClearEmptiesCache ==
    [][\A c \in CallIds :
        /\ ClearStep(c) => (cacheSize' = 0 /\ calls'[c].sizeAtDone = 0)
        /\ (calls[c].pc = "idle" /\ AfterClear(calls'[c], c) /\ inserted = <<>>) =>
                (~calls'[c].hit /\ calls'[c].pc \in {"waiting", "ready"})
        /\ (calls[c].pc = "ready" /\ AfterClear(calls[c], c) /\ calls'[c].outcome = "ok") =>
                (calls'[c].reads = 1 /\ CacheHas(cache', KeyOf(calls[c])))]_vars

\* a full cache is cleared, then a key it held is extracted again and cached again
C16_Witness ==
    /\ calls[1].kind = "clear"
    /\ calls[1].sizeAtStart = maxSize
    /\ calls[2].kind = "at"
    /\ KeyOf(calls[2]) \in calls[1].dropped
    /\ calls[2].pc = "done" /\ calls[2].outcome = "ok"
    /\ ~calls[2].hit /\ calls[2].drew /\ calls[2].reads = 1
    /\ KeySeq(cache) = <<KeyOf(calls[2])>>

\* the channel values a canvas of the pictures can hold
PixelValues == {CanvasPixel(i, x, y, NaturalSize(i)) : i \in Images, x \in 0..NaturalSize("A").width,
                                                      y \in 0..NaturalSize("A").height}

\* rgbToHex and rgbToHsl tabulated once over those values
HexTable == [rgb \in PixelValues |-> rgbToHex(rgb)] @@ <<>>

HslTable == [rgb \in PixelValues |-> rgbToHsl(rgb)] @@ <<>>

HexOf(rgb) == IF rgb \in DOMAIN HexTable THEN HexTable[rgb] ELSE rgbToHex(rgb)

HslOf(rgb) == IF rgb \in DOMAIN HslTable THEN HslTable[rgb] ELSE rgbToHsl(rgb)

\* the three encodings of a colour agree
ColorConsistent(color) ==
    /\ color.hex = HexOf(color.rgb)
    /\ color.hsl = HslOf(color.rgb)

\* rgb is what getImageData gives at (x, y) of a canvas holding image i: the
\* picture's pixel, or the channels of transparent black beside the picture
PixelOf(i, xy, rgb) ==
    \E size \in {NaturalSize(i), NominalSize(i)} : rgb = CanvasPixel(i, xy[1], xy[2], size)

\* every cached colour agrees with itself and with the canvas pixel of its key
CacheAgrees ==
    \A n \in 1..Len(cache) :
        /\ ColorConsistent(cache[n].color)
        /\ PixelOf(cache[n].key[1], <<cache[n].key[2], cache[n].key[3]>>, cache[n].color.rgb)

\* every colour call c returned agrees with itself and with the canvas pixel asked for
ResultAgrees(c) ==
    (calls[c].kind \in {"at", "many"} /\ calls[c].pc = "done" /\ calls[c].outcome = "ok") =>
        /\ Len(calls[c].result) = Len(calls[c].coords)
        /\ \A k \in 1..Len(calls[c].result) :
                /\ ColorConsistent(calls[c].result[k])
                /\ PixelOf(calls[c].image, calls[c].coords[k], calls[c].result[k].rgb)
        /\ SampledAt(c) =>
                calls[c].result[1].rgb =
                    CanvasPixel(calls[c].image, calls[c].coords[1][1], calls[c].coords[1][2], calls[c].dims)

\* C17: every colour an extraction returns and every colour in the cache has
\* hex = rgbToHex(rgb) and hsl = rgbToHsl(rgb), and its rgb is the canvas pixel
\* at the requested coordinate, alpha left out.
C17_ColorFieldsAgree == CacheAgrees /\ \A c \in CallIds : ResultAgrees(c)

\* a sampled call returned the picture's pixel and the cache holds the same colour;
\* another picture's canvas was read beside the picture, where alpha is 0
C17_Witness ==
    /\ \E c \in CallIds :
            /\ SampledAt(c)
            /\ calls[c].result[1].rgb = ImageData(calls[c].image, calls[c].coords[1][1], calls[c].coords[1][2])
            /\ calls[c].result[1].hex # rgbToHex([r |-> 0, g |-> 0, b |-> 0])
            /\ CacheHas(cache, KeyOf(calls[c]))
            /\ CacheGet(cache, KeyOf(calls[c])) = calls[c].result[1]
    /\ \E c \in CallIds :
            /\ calls[c].kind = "many" /\ calls[c].outcome = "ok"
            /\ Len(calls[c].result) = 2

\* C18 as stated: for integer channels in [0,255] rgbToHsl returns integers with
\* hue in [0,360), never 360, and saturation and lightness in [0,100].
C18_Original ==
    (conv.op = "rgb" /\ conv.done) =>
        /\ conv.hslOut.h \in 0..359
        /\ conv.hslOut.s \in 0..100
        /\ conv.hslOut.l \in 0..100

\* the hue before rounding is above 359.5: red is the largest channel and blue
\* exceeds green by less than 1/120 of max - min
HueRoundsUpToFullTurn(rgb) ==
    /\ rgb.r = Max3(rgb.r, rgb.g, rgb.b)
    /\ rgb.g < rgb.b
    /\ 120 * (rgb.b - rgb.g) < rgb.r - Min3(rgb.r, rgb.g, rgb.b)

\* the hue before rounding is below 359.5
HueBelowFullTurn(rgb) ==
    \/ rgb.r # Max3(rgb.r, rgb.g, rgb.b)
    \/ rgb.g >= rgb.b
    \/ 120 * (rgb.b - rgb.g) > rgb.r - Min3(rgb.r, rgb.g, rgb.b)

\* C18 (amended): for integer channels in [0,255] rgbToHsl returns integers with
\* hue in [0,360] and saturation and lightness in [0,100]; the hue is 360 when
\* the hue before rounding is above 359.5 and is not 360 when it is below 359.5.
C18_HslRanges ==
    (conv.op = "rgb" /\ conv.done) =>
        /\ conv.hslOut.h \in 0..360
        /\ conv.hslOut.s \in 0..100
        /\ conv.hslOut.l \in 0..100
        /\ HueRoundsUpToFullTurn(conv.rgbIn) => conv.hslOut.h = 360
        /\ HueBelowFullTurn(conv.rgbIn) => conv.hslOut.h # 360

\* rgbToHsl({255, 0, 1}): hue 359.76 before rounding, 360 returned
C18_Witness ==
    /\ conv.op = "rgb" /\ conv.done
    /\ conv.rgbIn = [r |-> 255, g |-> 0, b |-> 1]
    /\ conv.hslOut = [h |-> 360, s |-> 100, l |-> 50]

\* the value is no number, or a number outside [0, top]
OutOfRange(v, top) == v.type # "number" \/ v.value < 0 \/ v.value > top

\* C19: rgbToHex and rgbToHsl throw exactly when a channel is no number or is
\* outside [0,255]; hslToRgb throws exactly when h is outside [0,360] or s or l
\* is outside [0,100] (a value that is no number counts as outside); hexToRgb
\* and normalizeHex throw exactly when isValidHex is false.  The error is the
\* outcome of the call itself, and every other argument yields a value.
C19_FailsExactlyOnInvalid ==
    conv.done =>
        /\ conv.op = "rgbToHex" =>
                (conv.hexOut = InvalidColor <=> \E n \in 1..3 : OutOfRange(conv.args[n], 255))
        /\ conv.op = "rgbToHsl" =>
                (conv.hslOut = NoHsl <=> \E n \in 1..3 : OutOfRange(conv.args[n], 255))
        /\ conv.op = "hslToRgb" =>
                (conv.rgbOut = NoRgb <=>
                    \/ OutOfRange(conv.args[1], 360)
                    \/ OutOfRange(conv.args[2], 100)
                    \/ OutOfRange(conv.args[3], 100))
        /\ conv.op = "hexToRgb" => (conv.rgbOut = NoRgb <=> ~isValidHexJs(conv.arg))
        /\ conv.op = "normalizeHex" => (conv.hexOut = InvalidColor <=> ~isValidHexJs(conv.arg))

\* hslToRgb has thrown on a hue of 361 with valid saturation and lightness
C19_Witness ==
    /\ conv.done
    /\ conv.op = "hslToRgb"
    /\ conv.args = <<Num(361), Num(50), Num(50)>>
    /\ conv.rgbOut = NoRgb

\* C20: for every valid integer input rgbToHsl and hslToRgb return what the
\* reference formulas give in exact arithmetic with every output rounded half
\* up (rgbToHsl and hslToRgb above), and hexToRgb("#FF5733") = {255,87,51},
\* rgbToHsl({255,0,0}) = {0,100,50}, rgbToHsl({0,0,0}) = {0,0,0},
\* rgbToHsl({255,87,51}) = {11,100,60}, hslToRgb({120,100,50}) = {0,255,0}.
C20_MatchesReference ==
    conv.done =>
        /\ (conv.op = "rgbToHsl" /\ isValidRgbJs(conv.args)) =>
                conv.hslOut = rgbToHsl(Channels(conv.args))
        /\ (conv.op = "hslToRgb" /\ isValidHslJs(conv.args)) =>
                conv.rgbOut = hslToRgb(Components(conv.args))
        /\ (conv.op = "hexToRgb" /\ conv.arg = [type |-> "string", chars |-> <<"#", "F", "F", "5", "7", "3", "3">>]) =>
                conv.rgbOut = [r |-> 255, g |-> 87, b |-> 51]
        /\ (conv.op = "rgbToHsl" /\ conv.args = <<Num(255), Num(0), Num(0)>>) =>
                conv.hslOut = [h |-> 0, s |-> 100, l |-> 50]
        /\ (conv.op = "rgbToHsl" /\ conv.args = <<Num(0), Num(0), Num(0)>>) =>
                conv.hslOut = [h |-> 0, s |-> 0, l |-> 0]
        /\ (conv.op = "rgbToHsl" /\ conv.args = <<Num(255), Num(87), Num(51)>>) =>
                conv.hslOut = [h |-> 11, s |-> 100, l |-> 60]
        /\ (conv.op = "hslToRgb" /\ conv.args = <<Num(120), Num(100), Num(50)>>) =>
                conv.rgbOut = [r |-> 0, g |-> 255, b |-> 0]

\* the order in which equal spaces are resolved: right before left, bottom
\* before top, a horizontal side before a vertical one
SidePriority == <<"right", "left", "bottom", "top">>

Rank(side) == CHOOSE n \in 1..4 : SidePriority[n] = side

\* the side of a set with the most free space, the earlier in SidePriority among equals
MostSpace(segment, container, sides) ==
    CHOOSE s \in sides : \A t \in sides :
        \/ FreeSpace(segment, container, s) > FreeSpace(segment, container, t)
        \/ /\ FreeSpace(segment, container, s) = FreeSpace(segment, container, t)
           /\ Rank(s) <= Rank(t)

\* the preferred side is auto, or is left or right without the room it needs
PreferenceYields(p) ==
    \/ p.preferredSide = "auto"
    \/ FreeSpace(p.segment, p.container, p.preferredSide) < RoomNeeded(p.preferredSide)

\* C21: when the preferred side is auto, or is left or right without enough room,
\* the side returned is the horizontal side with more space if that space is at
\* least 192 + 12 + 16; else the vertical side with more space if that space is at
\* least 140 + 12 + 16; else the side with the most space of all four.  Equal
\* spaces go to right over left, bottom over top, horizontal over vertical.
C21_SideSelection ==
    (place.done /\ PreferenceYields(place)) =>
        place.position.side =
            IF HorizontalFits(place.segment, place.container)
            THEN MostSpace(place.segment, place.container, {"left", "right"})
            ELSE IF VerticalFits(place.segment, place.container)
            THEN MostSpace(place.segment, place.container, {"top", "bottom"})
            ELSE MostSpace(place.segment, place.container, PanelSides)

\* no side has room, the best horizontal and the best vertical side have the same
\* space, and the horizontal one is returned
C21_Witness ==
    /\ place.done
    /\ PreferenceYields(place)
    /\ ~HorizontalFits(place.segment, place.container)
    /\ ~VerticalFits(place.segment, place.container)
    /\ FreeSpace(place.segment, place.container, "right") = FreeSpace(place.segment, place.container, "top")
    /\ FreeSpace(place.segment, place.container, "right") > FreeSpace(place.segment, place.container, "left")
    /\ FreeSpace(place.segment, place.container, "top") > FreeSpace(place.segment, place.container, "bottom")
    /\ place.position.side = "right"

\* C22: whenever the side returned has at least panel extent + 12 + 16 px free, the
\* panel edge facing the region is exactly 12 px from the region's edge on that side:
\* x = region.x + region.width + 12 for right, x + 192 = region.x - 12 for left,
\* y = region.y + region.height + 12 for bottom, y + 140 = region.y - 12 for top.
C22_ExactClearance ==
    (/\ place.done
     /\ FreeSpace(place.segment, place.container, place.position.side) >= RoomNeeded(place.position.side)) =>
        /\ place.position.side = "right" =>
              place.position.x2 = 2 * (place.segment.x + place.segment.width + SEGMENT_PANEL_GAP)
        /\ place.position.side = "left" =>
              place.position.x2 + 2 * PANEL_WIDTH = 2 * (place.segment.x - SEGMENT_PANEL_GAP)
        /\ place.position.side = "bottom" =>
              place.position.y2 = 2 * (place.segment.y + place.segment.height + SEGMENT_PANEL_GAP)
        /\ place.position.side = "top" =>
              place.position.y2 + 2 * PANEL_HEIGHT = 2 * (place.segment.y - SEGMENT_PANEL_GAP)

\* a panel above the region with its lower edge 12 px over the region's upper edge
C22_Witness ==
    /\ place.done
    /\ place.position.side = "top"
    /\ FreeSpace(place.segment, place.container, "top") >= RoomNeeded("top")
    /\ place.position.y2 + 2 * PANEL_HEIGHT = 2 * (place.segment.y - SEGMENT_PANEL_GAP)

\* the dimensions the image reports now: intrinsic where they are non-zero, else nominal
DimensionsNow(i) ==
    [width |-> IF NaturalWidth(i, imgStatus[i]) # 0 THEN NaturalWidth(i, imgStatus[i]) ELSE NominalSize(i).width,
     height |-> IF NaturalHeight(i, imgStatus[i]) # 0 THEN NaturalHeight(i, imgStatus[i])
                ELSE NominalSize(i).height]

\* C23: the width and height a coordinate is validated against are the image's
\* intrinsic dimensions whenever these are non-zero once the image has been decoded,
\* the nominal ones only when intrinsic data is unavailable; also when the image was
\* not loaded at call time and finished loading while the call was suspended.
C23_ValidatesAgainstIntrinsic ==
    \A c \in CallIds :
        (calls[c].kind \in {"at", "many"} /\ calls[c].canvas = "resolved") =>
            calls[c].dims = DimensionsNow(calls[c].image)

\* a coordinate outside the image whichever of its sizes is taken
OutsideImage(i, xy) == ~InBounds(xy, NaturalSize(i)) /\ ~InBounds(xy, NominalSize(i))

OutOfBoundsMessages == {"X coordinate is out of bounds", "Y coordinate is out of bounds"}

\* C24: on a cache miss extractColorFromImage validates the coordinate before it
\* decodes the image: a request with an out-of-bounds coordinate fails with the
\* out-of-bounds error without starting or awaiting a decode, also when the image is
\* still loading or cannot be decoded.
C24_ValidatesBeforeDecode ==
    \A c \in CallIds :
        (/\ calls[c].kind = "at"
         /\ ~calls[c].hit
         /\ OutsideImage(calls[c].image, calls[c].coords[1])) =>
            /\ calls[c].pc = "done"
            /\ calls[c].outcome = "error"
            /\ calls[c].error.msg \in OutOfBoundsMessages
            /\ calls[c].canvas = "none"
            /\ ~calls[c].drew

\* one extractColorFromImage(i, x, y) made now and run to its end: a hit returns the
\* stored colour, a miss validates against the dimensions the image has now, reads and
\* caches (nothing once an earlier call of the series has failed)
AtNow(st, i, xy) ==
    IF st.error.msg # "none" THEN st
    ELSE IF CacheHas(st.cache, generateKey(i, xy[1], xy[2]))
    THEN [st EXCEPT !.result = Append(@, CacheGet(st.cache, generateKey(i, xy[1], xy[2])))]
    ELSE Sample(st, i, xy, CanvasDimensions(i, imgStatus[i]), imgStatus[i])

\* extractColorFromImage called for each coordinate, one call after another
RECURSIVE Successive(_, _, _)
Successive(st, i, coords) ==
    IF coords = <<>> THEN st
    ELSE Only({Successive(after, i, Tail(coords)) : after \in {AtNow(st, i, Head(coords))}})

\* the continuation of extractMultipleColors call c runs and the call succeeds
BatchSucceeds(c) ==
    /\ calls[c].pc = "ready"
    /\ calls[c].kind = "many"
    /\ calls'[c].pc = "done"
    /\ calls'[c].outcome = "ok"

\* the batch drew once, and its colours and the cache it leaves are those of the
\* successive single calls
BatchAsSuccessive(c) ==
    \E ref \in {Successive(RunState(cache, inserted), calls[c].image, calls[c].coords)} :
        /\ calls'[c].drew
        /\ Len(calls'[c].result) = Len(calls[c].coords)
        /\ ref.error.msg = "none"
        /\ calls'[c].result = ref.result
        /\ cache' = ref.cache

\* C25: a successful extractMultipleColors(image, coords) draws the image once and
\* returns one colour per coordinate, in order, each equal to what
\* extractColorFromImage(image, x, y) called one after another in that order would
\* return, and it leaves the cache as those successive calls would.
C25_BatchEqualsSuccessive ==
    [][\A c \in CallIds : BatchSucceeds(c) => BatchAsSuccessive(c)]_vars

\* the continuation of extractMultipleColors call c runs and fails on a coordinate
\* that is out of bounds
BatchFailsOutOfBounds(c) ==
    /\ calls[c].pc = "ready"
    /\ calls[c].kind = "many"
    /\ calls'[c].pc = "done"
    /\ calls'[c].outcome = "error"
    /\ calls'[c].error.cause \in OutOfBoundsMessages

\* C26: when extractMultipleColors fails because one of its coordinates is out of
\* bounds, what it computed for the earlier coordinates is discarded entirely: the
\* cache contents and getColorCacheSize() are the same after the failed call as before.
C26_FailedBatchLeavesCache ==
    [][\A c \in CallIds : BatchFailsOutOfBounds(c) => (cache' = cache /\ Len(cache') = Len(cache))]_vars

\* the continuation of extractColorFromImage call c runs and the call fails
AtFails(c) ==
    /\ calls[c].pc = "ready"
    /\ calls[c].kind = "at"
    /\ calls'[c].pc = "done"
    /\ calls'[c].outcome = "error"

\* call c is an extractColorFromImage call that failed with no other call in flight,
\* and call c + 1 is the same request made after it
FailedThenRepeated(c) ==
    /\ c + 1 \in CallIds
    /\ calls[c].kind = "at"
    /\ calls[c].pc = "done"
    /\ calls[c].outcome = "error"
    /\ ~calls[c].overlap
    /\ calls[c + 1].kind = "at"
    /\ calls[c + 1].image = calls[c].image
    /\ calls[c + 1].coords = calls[c].coords
    /\ calls[c + 1].prevDone

\* C27: an extractColorFromImage call that fails (coordinate out of bounds, the image
\* fails to load, the pixel cannot be read) leaves the cache exactly as it was: no
\* entry is added, removed or reordered, and a later identical call is again a miss.
C27_FailedCallLeavesCache ==
    /\ [][\A c \in CallIds : AtFails(c) => (cache' = cache /\ inserted' = inserted)]_vars
    /\ [](\A c \in CallIds : FailedThenRepeated(c) => ~calls[c + 1].hit)

\* a call failed on a pixel it could not read, the same request was made again and
\* missed, and the cache holds what it held when the first call was made
C27_Witness ==
    \E c \in CallIds :
        /\ FailedThenRepeated(c)
        /\ calls[c].error.cause = "getImageData"
        /\ ~calls[c + 1].hit
        /\ calls[c + 1].pc = "done"
        /\ calls[c].startEpoch = clears
        /\ Len(cache) = calls[c].sizeAtStart

\* calls c and d are extractColorFromImage calls for the same key that both missed
\* before either inserted, and both have returned a sampled colour
Twins(c, d) ==
    /\ c # d
    /\ SampledAt(c) /\ SampledAt(d)
    /\ KeyOf(calls[c]) = KeyOf(calls[d])
    /\ calls[c].startEpoch = clears /\ calls[d].startEpoch = clears

\* the continuation of call d inserts a key that a twin call has inserted already
SecondInsert(d) ==
    /\ calls[d].pc = "ready"
    /\ calls[d].kind = "at"
    /\ calls'[d].pc = "done"
    /\ calls'[d].outcome = "ok"
    /\ CacheHas(cache, KeyOf(calls[d]))

\* C28: when two extractColorFromImage calls for the same uncached key interleave so
\* that both miss before either inserts, the cache holds exactly one entry for the key
\* after both, and the second insert neither adds to getColorCacheSize() (which thus
\* grows by the first insert alone) nor evicts another entry, also when the cache holds
\* 100 entries at that time: the keys in the cache and their order stay as they are.
C28_TwinInsertsKeepEntries ==
    /\ [][\A d \in CallIds : SecondInsert(d) => KeySeq(cache') = KeySeq(cache)]_vars
    /\ [](\A c, d \in CallIds : Twins(c, d) =>
            Cardinality({n \in 1..Len(cache) : cache[n].key = KeyOf(calls[c])}) = 1)

\* C29: for every integer RGB triple in [0,255] the palette code's own
\* rgbToHex(r, g, b) and rgbToHsl(r, g, b) return exactly the hex string and the
\* HSL triple that the colour model's rgbToHex and rgbToHsl return.
C29_PaletteAgreesWithColorModel ==
    (conv.done /\ conv.op = "palette") =>
        /\ conv.paletteHex = rgbToHex(Channels(conv.args))
        /\ conv.paletteHsl = rgbToHslBinary64(Channels(conv.args))

\* C30: getResponsivePanelDimensions(w) is 192x140 for every w >= 640; for every
\* w < 640 its height is 120 and its width is positive, at most 160 and at most w - 32.
C30_ResponsiveDimensions ==
    place.panel # NoDimensions =>
        IF place.container.width >= 640
        THEN place.panel = [width |-> 192, height |-> 140]
        ELSE /\ place.panel.height = 120
             /\ place.panel.width > 0
             /\ place.panel.width <= 160
             /\ place.panel.width <= place.container.width - 32

====
